---- MODULE Spec2Model ----
(***************************************************************************)
(* A model of wdi-rs, the Rust binding layer over libwdi.                  *)
(*                                                                         *)
(* The public operations create_list, prepare_driver and install_driver    *)
(* are modelled as a state machine that steps through each function body   *)
(* (src/src/lib.rs), the foreign library being the environment: each       *)
(* foreign call returns a status code and, for wdi_create_list, a linked   *)
(* list of raw nodes placed in foreign memory.                             *)
(***************************************************************************)
EXTENDS Integers, Sequences, FiniteSets, TLC

(***************************************************************************)
(* Bounds of the model.                                                    *)
(***************************************************************************)
\* the longest raw device list the foreign enumeration call hands back
MaxNodes == 3

(***************************************************************************)
(* Foreign constants (libwdi.h, reached through the generated bindings).   *)
(***************************************************************************)
WDI_SUCCESS == 0
WDI_ERROR_INVALID_PARAM == -2
WDI_ERROR_ACCESS == -3
WDI_ERROR_NO_DEVICE == -4
WDI_ERROR_NOT_FOUND == -5
WDI_ERROR_BUSY == -6
WDI_ERROR_RESOURCE == -11

WDI_WINUSB == 0
WDI_LIBUSB0 == 1
WDI_LIBUSBK == 2
WDI_USER == 3

\* the null pointer (ptr::null_mut())
NULL == 0

(***************************************************************************)
(* Option<T>: None is the empty sequence, Some(x) the one-element sequence.*)
(***************************************************************************)
None == << >>
Some(x) == << x >>
IsSome(o) == Len(o) = 1
Unwrap(o) == o[1]

(***************************************************************************)
(* Error Domain (src/src/error.rs).                                        *)
(***************************************************************************)
ErrorVariants == {"InvalidParam", "Access", "Resource", "NotFound", "NoDevice", "Busy"}

\* A plausible slip: the variants of the two "not there" codes exchanged.
from_error_code_swapped(code) ==
    CASE code = WDI_ERROR_INVALID_PARAM -> Some("InvalidParam")
      [] code = WDI_ERROR_ACCESS -> Some("Access")
      [] code = WDI_ERROR_RESOURCE -> Some("Resource")
      [] code = WDI_ERROR_NO_DEVICE -> Some("NotFound")
      [] code = WDI_ERROR_NOT_FOUND -> Some("NoDevice")
      [] code = WDI_ERROR_BUSY -> Some("Busy")
      [] OTHER -> None

\* A plausible slip: the Busy arm left out of the match.
from_error_code_no_busy(code) ==
    CASE code = WDI_ERROR_INVALID_PARAM -> Some("InvalidParam")
      [] code = WDI_ERROR_ACCESS -> Some("Access")
      [] code = WDI_ERROR_RESOURCE -> Some("Resource")
      [] code = WDI_ERROR_NO_DEVICE -> Some("NoDevice")
      [] code = WDI_ERROR_NOT_FOUND -> Some("NotFound")
      [] OTHER -> None

\* Error::from_error_code: Option<Error>
from_error_code(code) ==
    CASE code = WDI_ERROR_INVALID_PARAM -> Some("InvalidParam")
      [] code = WDI_ERROR_ACCESS -> Some("Access")
      [] code = WDI_ERROR_RESOURCE -> Some("Resource")
      [] code = WDI_ERROR_NO_DEVICE -> Some("NoDevice")
      [] code = WDI_ERROR_NOT_FOUND -> Some("NotFound")
      [] code = WDI_ERROR_BUSY -> Some("Busy")
      [] OTHER -> None

(***************************************************************************)
(* C strings.  Memory is a function from addresses to byte buffers; a      *)
(* pointer is an address of that function's domain, or NULL.               *)
(***************************************************************************)
RECURSIVE ScanToNul(_, _)
\* the index of the first zero byte of buf at or after i
ScanToNul(buf, i) == IF buf[i] = 0 THEN i ELSE ScanToNul(buf, i + 1)

\* CStr::from_ptr(p).to_bytes_with_nul().to_vec(): the bytes up to and
\* including the first zero byte
CStr_from_ptr(mem, p) == SubSeq(mem[p], 1, ScanToNul(mem[p], 1))

\* A plausible slip: a string with a zero byte cut at that byte.
CString_new_truncating(s) ==
    IF \E i \in 1..Len(s) : s[i] = 0
    THEN Some(SubSeq(s, 1, ScanToNul(s, 1)))
    ELSE Some(s \o << 0 >>)

\* CString::new(s): Err(NulError) when s holds a zero byte, else s with the
\* terminator appended
CString_new(s) ==
    IF \E i \in 1..Len(s) : s[i] = 0 THEN None ELSE Some(s \o << 0 >>)

(***************************************************************************)
(* A function that may panic: Panicked, or Returned(v).                    *)
(***************************************************************************)
Panicked == << >>
Returned(v) == << v >>
HasReturned(r) == Len(r) = 1

\* `b as i32` for a bool
bool_as_i32(b) == IF b THEN 1 ELSE 0

(***************************************************************************)
(* Device Record (src/src/lib.rs, DeviceInfo).                             *)
(***************************************************************************)
\* A plausible slip: an empty foreign string read as an absent field.
clone_opt_string_empty_is_none(mem, p) ==
    IF p # NULL /\ CStr_from_ptr(mem, p) # << 0 >> THEN Some(CStr_from_ptr(mem, p)) ELSE None

\* one optional string field of clone_from_raw: present exactly when the
\* pointer is not null
clone_opt_string(mem, p) == IF p # NULL THEN Some(CStr_from_ptr(mem, p)) ELSE None

\* A plausible slip: a null raw.desc replaced by the empty string.
clone_from_raw_lenient(raw, mem) ==
    Returned([vid |-> raw.vid,
              pid |-> raw.pid,
              is_composite |-> raw.is_composite # 0,
              mi |-> raw.mi,
              desc |-> IF raw.desc = NULL THEN << 0 >> ELSE CStr_from_ptr(mem, raw.desc),
              driver |-> clone_opt_string(mem, raw.driver),
              device_id |-> clone_opt_string(mem, raw.device_id),
              hardware_id |-> clone_opt_string(mem, raw.hardware_id),
              compatible_id |-> clone_opt_string(mem, raw.compatible_id),
              upper_filter |-> clone_opt_string(mem, raw.upper_filter),
              driver_version |-> raw.driver_version])

\* DeviceInfo::clone_from_raw: panics when raw.desc is null, else the deep
\* copy of the node
clone_from_raw(raw, mem) ==
    IF raw.desc = NULL
    THEN Panicked
    ELSE Returned([vid |-> raw.vid,
                   pid |-> raw.pid,
                   is_composite |-> raw.is_composite # 0,
                   mi |-> raw.mi,
                   desc |-> CStr_from_ptr(mem, raw.desc),
                   driver |-> clone_opt_string(mem, raw.driver),
                   device_id |-> clone_opt_string(mem, raw.device_id),
                   hardware_id |-> clone_opt_string(mem, raw.hardware_id),
                   compatible_id |-> clone_opt_string(mem, raw.compatible_id),
                   upper_filter |-> clone_opt_string(mem, raw.upper_filter),
                   driver_version |-> raw.driver_version])

\* The addresses as_raw gives to the buffers of a DeviceInfo: the raw struct
\* borrows from the value, so each buffer has its own address.
DescAddr == 1
DriverAddr == 2
DeviceIdAddr == 3
HardwareIdAddr == 4
CompatibleIdAddr == 5
UpperFilterAddr == 6

\* v.as_mut().map(|v| v.as_mut_ptr()).unwrap_or(ptr::null_mut())
opt_as_ptr(o, addr) == IF IsSome(o) THEN addr ELSE NULL

\* the buffers of a DeviceInfo, at the addresses as_raw points to
DeviceInfo_buffers(self) ==
    [a \in {DescAddr}
           \cup {x \in {DriverAddr} : IsSome(self.driver)}
           \cup {x \in {DeviceIdAddr} : IsSome(self.device_id)}
           \cup {x \in {HardwareIdAddr} : IsSome(self.hardware_id)}
           \cup {x \in {CompatibleIdAddr} : IsSome(self.compatible_id)}
           \cup {x \in {UpperFilterAddr} : IsSome(self.upper_filter)} |->
        CASE a = DescAddr -> self.desc
          [] a = DriverAddr -> Unwrap(self.driver)
          [] a = DeviceIdAddr -> Unwrap(self.device_id)
          [] a = HardwareIdAddr -> Unwrap(self.hardware_id)
          [] a = CompatibleIdAddr -> Unwrap(self.compatible_id)
          [] a = UpperFilterAddr -> Unwrap(self.upper_filter)]

\* A plausible slip: the device_id line pasted from the driver line and
\* left pointing into the driver buffer.
DeviceInfo_as_raw_pasted(self) ==
    [raw |-> [next |-> NULL,
              vid |-> self.vid,
              pid |-> self.pid,
              is_composite |-> bool_as_i32(self.is_composite),
              mi |-> self.mi,
              desc |-> DescAddr,
              driver |-> opt_as_ptr(self.driver, DriverAddr),
              device_id |-> opt_as_ptr(self.driver, DriverAddr),
              hardware_id |-> opt_as_ptr(self.hardware_id, HardwareIdAddr),
              compatible_id |-> opt_as_ptr(self.compatible_id, CompatibleIdAddr),
              upper_filter |-> opt_as_ptr(self.upper_filter, UpperFilterAddr),
              driver_version |-> self.driver_version],
     mem |-> DeviceInfo_buffers(self)]

\* A plausible slip: an optional field holding the empty string passed as a
\* null pointer.
opt_as_ptr_or_null_if_empty(o, addr) == IF IsSome(o) /\ o # Some(<< 0 >>) THEN addr ELSE NULL
DeviceInfo_as_raw_empty_is_null(self) ==
    [raw |-> [next |-> NULL,
              vid |-> self.vid,
              pid |-> self.pid,
              is_composite |-> bool_as_i32(self.is_composite),
              mi |-> self.mi,
              desc |-> DescAddr,
              driver |-> opt_as_ptr_or_null_if_empty(self.driver, DriverAddr),
              device_id |-> opt_as_ptr_or_null_if_empty(self.device_id, DeviceIdAddr),
              hardware_id |-> opt_as_ptr_or_null_if_empty(self.hardware_id, HardwareIdAddr),
              compatible_id |-> opt_as_ptr_or_null_if_empty(self.compatible_id, CompatibleIdAddr),
              upper_filter |-> opt_as_ptr_or_null_if_empty(self.upper_filter, UpperFilterAddr),
              driver_version |-> self.driver_version],
     mem |-> DeviceInfo_buffers(self)]

\* DeviceInfo::as_raw: the raw struct, and the memory its pointers borrow
DeviceInfo_as_raw(self) ==
    [raw |-> [next |-> NULL,
              vid |-> self.vid,
              pid |-> self.pid,
              is_composite |-> bool_as_i32(self.is_composite),
              mi |-> self.mi,
              desc |-> DescAddr,
              driver |-> opt_as_ptr(self.driver, DriverAddr),
              device_id |-> opt_as_ptr(self.device_id, DeviceIdAddr),
              hardware_id |-> opt_as_ptr(self.hardware_id, HardwareIdAddr),
              compatible_id |-> opt_as_ptr(self.compatible_id, CompatibleIdAddr),
              upper_filter |-> opt_as_ptr(self.upper_filter, UpperFilterAddr),
              driver_version |-> self.driver_version],
     mem |-> DeviceInfo_buffers(self)]

(***************************************************************************)
(* Options Records.                                                        *)
(***************************************************************************)
\* A plausible slip: two of the flags exchanged on the way out.
CreateListOptions_as_raw_exchanged(self) ==
    [list_all |-> bool_as_i32(self.list_all),
     list_hubs |-> bool_as_i32(self.trim_whitespaces),
     trim_whitespaces |-> bool_as_i32(self.list_hubs)]

\* CreateListOptions::as_raw
CreateListOptions_as_raw(self) ==
    [list_all |-> bool_as_i32(self.list_all),
     list_hubs |-> bool_as_i32(self.list_hubs),
     trim_whitespaces |-> bool_as_i32(self.trim_whitespaces)]

\* CreateListOptions::from_raw
CreateListOptions_from_raw(raw) ==
    [list_all |-> raw.list_all # 0,
     list_hubs |-> raw.list_hubs # 0,
     trim_whitespaces |-> raw.trim_whitespaces # 0]

\* `self as i32` for a DriverType (#[repr(i32)])
DriverType_as_i32(t) ==
    CASE t = "WinUsb" -> WDI_WINUSB
      [] t = "Libusb0" -> WDI_LIBUSB0
      [] t = "LibusbK" -> WDI_LIBUSBK
      [] t = "User" -> WDI_USER

\* The addresses as_raw gives to the buffers of a PrepareDriverOptions.
VendorNameAddr == 1
DeviceGuidAddr == 2
CertSubjectAddr == 3

\* A plausible slip: the cert_subject line pasted from the device_guid line
\* and left pointing into the device_guid buffer.
PrepareDriverOptions_as_raw_pasted(self) ==
    [raw |-> [driver_type |-> DriverType_as_i32(self.driver_type),
              vendor_name |-> opt_as_ptr(self.vendor_name, VendorNameAddr),
              device_guid |-> opt_as_ptr(self.device_guid, DeviceGuidAddr),
              disable_cat |-> bool_as_i32(self.disable_cat),
              disable_signing |-> bool_as_i32(self.disable_signing),
              cert_subject |-> opt_as_ptr(self.device_guid, DeviceGuidAddr),
              use_wcid_driver |-> bool_as_i32(self.use_wcid_driver),
              external_inf |-> bool_as_i32(self.external_inf)],
     mem |-> [a \in {x \in {VendorNameAddr} : IsSome(self.vendor_name)}
                    \cup {x \in {DeviceGuidAddr} : IsSome(self.device_guid)}
                    \cup {x \in {CertSubjectAddr} : IsSome(self.cert_subject)} |->
                CASE a = VendorNameAddr -> Unwrap(self.vendor_name)
                  [] a = DeviceGuidAddr -> Unwrap(self.device_guid)
                  [] a = CertSubjectAddr -> Unwrap(self.cert_subject)]]

\* PrepareDriverOptions::as_raw: the raw struct, and the memory it borrows
PrepareDriverOptions_as_raw(self) ==
    [raw |-> [driver_type |-> DriverType_as_i32(self.driver_type),
              vendor_name |-> opt_as_ptr(self.vendor_name, VendorNameAddr),
              device_guid |-> opt_as_ptr(self.device_guid, DeviceGuidAddr),
              disable_cat |-> bool_as_i32(self.disable_cat),
              disable_signing |-> bool_as_i32(self.disable_signing),
              cert_subject |-> opt_as_ptr(self.cert_subject, CertSubjectAddr),
              use_wcid_driver |-> bool_as_i32(self.use_wcid_driver),
              external_inf |-> bool_as_i32(self.external_inf)],
     mem |-> [a \in {x \in {VendorNameAddr} : IsSome(self.vendor_name)}
                    \cup {x \in {DeviceGuidAddr} : IsSome(self.device_guid)}
                    \cup {x \in {CertSubjectAddr} : IsSome(self.cert_subject)} |->
                CASE a = VendorNameAddr -> Unwrap(self.vendor_name)
                  [] a = DeviceGuidAddr -> Unwrap(self.device_guid)
                  [] a = CertSubjectAddr -> Unwrap(self.cert_subject)]]

\* InstallDriverOptions::as_raw
InstallDriverOptions_as_raw(self) ==
    [hWnd |-> self.hwnd,
     install_filter_driver |-> bool_as_i32(self.install_filter_driver),
     pending_install_timeout |-> self.pending_install_timeout]

(***************************************************************************)
(* Result<T, Error> of a public operation.                                 *)
(***************************************************************************)
Unit == << >>
NoResult == [kind |-> "None", val |-> << >>, err |-> ""]
Ok(v) == [kind |-> "Ok", val |-> v, err |-> ""]
Err(e) == [kind |-> "Err", val |-> << >>, err |-> e]

(***************************************************************************)
(* The environment: what the foreign library and the caller can supply.    *)
(***************************************************************************)
\* two status codes the Error Domain has no variant for
UnknownCodes == {-1, 1}

\* status codes a foreign call returns: success, the six recognized error
\* codes, and the unknown ones
StatusCodes ==
    {WDI_SUCCESS, WDI_ERROR_INVALID_PARAM, WDI_ERROR_ACCESS,
     WDI_ERROR_NO_DEVICE, WDI_ERROR_NOT_FOUND, WDI_ERROR_BUSY,
     WDI_ERROR_RESOURCE} \cup UnknownCodes

\* foreign string memory: "T", the empty string, and "D" in a buffer that
\* goes on after its terminator
ForeignStrings == (1 :> << 84, 0 >>) @@ (2 :> << 0 >>) @@ (3 :> << 68, 0, 88 >>)

\* raw nodes the foreign library may put in a list (next is set by the
\* layout): a minimal node, a node with strings and a non-canonical true,
\* and a node breaking the contract (desc null)
RawNodeSamples ==
    {[next |-> NULL, vid |-> 1, pid |-> 2, is_composite |-> 0, mi |-> 0,
      desc |-> 1, driver |-> NULL, device_id |-> NULL, hardware_id |-> NULL,
      compatible_id |-> NULL, upper_filter |-> NULL, driver_version |-> 0],
     [next |-> NULL, vid |-> 65535, pid |-> 3, is_composite |-> 2, mi |-> 1,
      desc |-> 3, driver |-> 1, device_id |-> 2, hardware_id |-> NULL,
      compatible_id |-> 3, upper_filter |-> NULL, driver_version |-> 7],
     [next |-> NULL, vid |-> 4, pid |-> 5, is_composite |-> 1, mi |-> 0,
      desc |-> NULL, driver |-> 1, device_id |-> NULL, hardware_id |-> NULL,
      compatible_id |-> NULL, upper_filter |-> NULL, driver_version |-> 0]}

\* sequences of raw nodes of length 0..MaxNodes
RawNodeSeqs == UNION {[1..n -> RawNodeSamples] : n \in 0..MaxNodes}

\* where the foreign library puts the i-th node of a list of n: in address
\* order or against it
Layouts == {"forward", "backward"}
NodeAddr(layout, n, i) == IF layout = "forward" THEN i ELSE n + 1 - i

\* the foreign heap holding the list ns, linked head to tail through next
ForeignNodes(ns, layout) ==
    LET n == Len(ns)
        IndexAt(a) == CHOOSE i \in 1..n : NodeAddr(layout, n, i) = a
    IN [a \in 1..n |->
            [ns[IndexAt(a)] EXCEPT
                !.next = IF IndexAt(a) = n THEN NULL
                         ELSE NodeAddr(layout, n, IndexAt(a) + 1)]]

\* the head of that list: null for the empty list
ForeignHead(ns, layout) == IF Len(ns) = 0 THEN NULL ELSE NodeAddr(layout, Len(ns), 1)

\* values a caller passes
CreateListOptionsValues ==
    [list_all : BOOLEAN, list_hubs : BOOLEAN, trim_whitespaces : BOOLEAN]

\* path and inf_name arguments (bytes of a &str): empty, plain, and one
\* with an interior zero byte
StrSamples == {<< >>, << 97 >>, << 97, 0, 98 >>}

DeviceSamples ==
    {[vid |-> 1, pid |-> 2, is_composite |-> FALSE, mi |-> 0,
      desc |-> << 84, 0 >>, driver |-> None, device_id |-> None,
      hardware_id |-> None, compatible_id |-> None, upper_filter |-> None,
      driver_version |-> 0],
     [vid |-> 65535, pid |-> 3, is_composite |-> TRUE, mi |-> 1,
      desc |-> << 68, 0 >>, driver |-> Some(<< 84, 0 >>),
      device_id |-> Some(<< 0 >>), hardware_id |-> None,
      compatible_id |-> Some(<< 68, 0 >>), upper_filter |-> None,
      driver_version |-> 7]}

\* the options create_list is called with here
CreateListOptionsSamples ==
    {[list_all |-> FALSE, list_hubs |-> FALSE, trim_whitespaces |-> FALSE],
     [list_all |-> TRUE, list_hubs |-> FALSE, trim_whitespaces |-> TRUE]}

\* PrepareDriverOptions::default()
PrepareDriverOptions_default ==
    [driver_type |-> "WinUsb", vendor_name |-> None, device_guid |-> None,
     disable_cat |-> FALSE, disable_signing |-> FALSE, cert_subject |-> None,
     use_wcid_driver |-> FALSE, external_inf |-> FALSE]

PrepareOptionsSamples ==
    {PrepareDriverOptions_default,
     [PrepareDriverOptions_default EXCEPT
        !.driver_type = "LibusbK", !.vendor_name = Some(<< 86, 0 >>),
        !.disable_cat = TRUE, !.external_inf = TRUE]}

\* InstallDriverOptions::default()
InstallDriverOptions_default ==
    [hwnd |-> NULL, install_filter_driver |-> FALSE, pending_install_timeout |-> 0]

InstallOptionsSamples ==
    {InstallDriverOptions_default,
     [hwnd |-> 1, install_filter_driver |-> TRUE, pending_install_timeout |-> 500]}

(***************************************************************************)
(* State.                                                                  *)
(***************************************************************************)
VARIABLES
    pc,            \* position in the running operation
    raw_opt,       \* create_list: the raw options (Option)
    list_ptr,      \* create_list: head of the foreign list
    current,       \* create_list: traversal cursor
    final_list,    \* create_list: the sequence collected so far
    nodes,         \* foreign heap: address -> raw node
    fmem,          \* foreign string memory: address -> bytes
    outstanding,   \* list heads handed out and not yet passed to destroy
    given,         \* the raw nodes of the list handed out, head to tail
    calls,         \* foreign calls and node reads of this invocation, in order
    result,        \* what the operation returned
    args,          \* prepare/install: the path and inf_name arguments (Option)
    raw,           \* prepare/install: device.as_raw() (Option)
    opt,           \* prepare/install: options.as_raw() (Option)
    path_ptr,      \* prepare/install: CString::into_raw of path
    inf_name_ptr,  \* prepare/install: CString::into_raw of inf_name
    cbufs,         \* live transient C-string buffers: address -> bytes
    released,      \* addresses of the buffers dropped, in order
    ret,           \* prepare/install: status code of the foreign call
    prevErr,       \* the last error an earlier create_list returned
    bench          \* the conversion applied on its own, its input and output

vars == << pc, raw_opt, list_ptr, current, final_list, nodes, fmem,
           outstanding, given, calls, result, args, raw, opt, path_ptr,
           inf_name_ptr, cbufs, released, ret, prevErr, bench >>

cl_vars == << raw_opt, list_ptr, current, final_list >>
foreign_vars == << nodes, fmem, outstanding, given >>
drv_vars == << args, raw, opt, path_ptr, inf_name_ptr, cbufs, released, ret >>

EmptyMem == [a \in {} |-> << >>]
NoPrevErr == [phase |-> "none", code |-> 0, result |-> NoResult]

\* no conversion applied on its own yet
NoBench == [fn |-> "none", arg |-> << >>, out |-> << >>]

Event(fn, arg, code) == [fn |-> fn, arg |-> arg, ret |-> code]

Init ==
    /\ pc = "idle"
    /\ raw_opt = None
    /\ list_ptr = NULL
    /\ current = NULL
    /\ final_list = << >>
    /\ nodes = EmptyMem
    /\ fmem = EmptyMem
    /\ outstanding = {}
    /\ given = << >>
    /\ calls = << >>
    /\ result = NoResult
    /\ args = None
    /\ raw = None
    /\ opt = None
    /\ path_ptr = NULL
    /\ inf_name_ptr = NULL
    /\ cbufs = EmptyMem
    /\ released = << >>
    /\ ret = 0
    /\ prevErr = NoPrevErr
    /\ bench = NoBench

\* the phase create_list failed in, read off its last foreign call
ErrPhase == IF calls[Len(calls)].fn = "wdi_destroy_list" THEN "destroy" ELSE "enumerate"

\* The operation has returned and the caller takes the result: the locals
\* are gone, the foreign world is no longer looked at, and the caller keeps
\* the last error a create_list gave it.  A panic ends the run instead.
return_to_caller ==
    /\ pc = "returned"
    /\ pc' = "idle"
    /\ raw_opt' = None
    /\ list_ptr' = NULL
    /\ current' = NULL
    /\ final_list' = << >>
    /\ nodes' = EmptyMem
    /\ fmem' = EmptyMem
    /\ outstanding' = {}
    /\ given' = << >>
    /\ calls' = << >>
    /\ result' = NoResult
    /\ args' = None
    /\ raw' = None
    /\ opt' = None
    /\ path_ptr' = NULL
    /\ inf_name_ptr' = NULL
    /\ cbufs' = EmptyMem
    /\ released' = << >>
    /\ ret' = 0
    /\ prevErr' = IF result.kind = "Err" /\ IsSome(raw_opt)
                  THEN [phase |-> ErrPhase, code |-> calls[Len(calls)].ret,
                        result |-> result]
                  ELSE prevErr
    /\ UNCHANGED bench

(***************************************************************************)
(* create_list (src/src/lib.rs).                                           *)
(***************************************************************************)
\* let mut list_ptr = ptr::null_mut(); let mut raw_opt = options.as_raw();
create_list_begin ==
    \E options \in CreateListOptionsSamples :
        /\ pc = "idle"
        /\ raw_opt' = Some(CreateListOptions_as_raw(options))
        /\ list_ptr' = NULL
        /\ pc' = "cl_enumerate"
        /\ UNCHANGED << current, final_list, foreign_vars, calls, result,
                        drv_vars, prevErr, bench >>

\* if let Some(e) = Error::from_error_code(wdi_create_list(&mut list_ptr,
\* &mut raw_opt)) { return Err(e); }
\* The foreign call hands back a list (possibly none) with WDI_SUCCESS, and
\* leaves the head null with any other status.
create_list_enumerate ==
    /\ pc = "cl_enumerate"
    /\ \E code \in StatusCodes, ns \in RawNodeSeqs, layout \in Layouts :
        /\ code # WDI_SUCCESS => ns = << >>
        /\ Len(ns) <= 1 => layout = "forward"
        /\ list_ptr' = ForeignHead(ns, layout)
        /\ nodes' = ForeignNodes(ns, layout)
        /\ fmem' = IF Len(ns) = 0 THEN EmptyMem ELSE ForeignStrings
        /\ outstanding' = {ForeignHead(ns, layout)} \ {NULL}
        /\ given' = ns
        /\ calls' = Append(calls, Event("wdi_create_list", NULL, code))
        /\ IF IsSome(from_error_code(code))
           THEN /\ result' = Err(Unwrap(from_error_code(code)))
                /\ pc' = "returned"
           ELSE /\ result' = result
                /\ pc' = "cl_check"
    /\ UNCHANGED << raw_opt, current, final_list, drv_vars, prevErr, bench >>

\* A plausible slip: the null check on the list head left out, the loop and
\* the destroy call then running on a null head.
create_list_check_absent ==
    /\ pc = "cl_check"
    /\ final_list' = << >>
    /\ current' = list_ptr
    /\ pc' = "cl_loop"
    /\ UNCHANGED << raw_opt, list_ptr, foreign_vars, calls, result, drv_vars, prevErr, bench >>

\* A plausible slip: a null head reported as an error value instead of a
\* panic.
create_list_check_as_error ==
    /\ pc = "cl_check"
    /\ IF list_ptr = NULL
       THEN /\ pc' = "returned"
            /\ result' = Err("NoDevice")
            /\ UNCHANGED << final_list, current >>
       ELSE /\ final_list' = << >>
            /\ current' = list_ptr
            /\ result' = result
            /\ pc' = "cl_loop"
    /\ UNCHANGED << raw_opt, list_ptr, foreign_vars, calls, drv_vars, prevErr, bench >>

\* if list_ptr.is_null() { panic!(..) }
\* let mut final_list = Vec::new(); let mut current = list_ptr;
create_list_check ==
    /\ pc = "cl_check"
    /\ IF list_ptr = NULL
       THEN /\ pc' = "panicked"
            /\ UNCHANGED << final_list, current >>
       ELSE /\ final_list' = << >>
            /\ current' = list_ptr
            /\ pc' = "cl_loop"
    /\ UNCHANGED << raw_opt, list_ptr, foreign_vars, calls, result, drv_vars, prevErr, bench >>

\* A plausible slip: the new element put in front.
vec_push_front(v, x) == << x >> \o v

\* final_list.push(info)
vec_push(v, x) == Append(v, x)

\* A plausible slip: each node released as soon as it has been copied.
create_list_loop_release_each ==
    /\ pc = "cl_loop"
    /\ current # NULL
    /\ LET info == clone_from_raw(nodes[current], fmem)
       IN IF HasReturned(info)
          THEN /\ final_list' = vec_push(final_list, info[1])
               /\ current' = nodes[current].next
               /\ calls' = calls \o << Event("read", current, 0),
                                       Event("wdi_destroy_list", current, WDI_SUCCESS) >>
               /\ pc' = pc
          ELSE /\ final_list' = << >>
               /\ current' = current
               /\ calls' = Append(calls, Event("read", current, 0))
               /\ pc' = "panicked"
    /\ UNCHANGED << raw_opt, list_ptr, foreign_vars, result, drv_vars, prevErr, bench >>

\* A plausible slip: the cursor moved past the node after the one read.
create_list_loop_skipping ==
    /\ pc = "cl_loop"
    /\ current # NULL
    /\ calls' = Append(calls, Event("read", current, 0))
    /\ LET info == clone_from_raw(nodes[current], fmem)
       IN IF HasReturned(info)
          THEN /\ final_list' = vec_push(final_list, info[1])
               /\ current' = IF nodes[current].next # NULL
                             THEN nodes[nodes[current].next].next
                             ELSE NULL
               /\ pc' = pc
          ELSE /\ final_list' = << >>
               /\ current' = current
               /\ pc' = "panicked"
    /\ UNCHANGED << raw_opt, list_ptr, foreign_vars, result, drv_vars, prevErr, bench >>

\* one turn of: while !current.is_null() { let info =
\* DeviceInfo::clone_from_raw(&*current); final_list.push(info);
\* current = (*current).next; }
\* A panic of clone_from_raw unwinds out of create_list, dropping final_list.
create_list_loop ==
    /\ pc = "cl_loop"
    /\ current # NULL
    /\ calls' = Append(calls, Event("read", current, 0))
    /\ LET info == clone_from_raw(nodes[current], fmem)
       IN IF HasReturned(info)
          THEN /\ final_list' = vec_push(final_list, info[1])
               /\ current' = nodes[current].next
               /\ pc' = pc
          ELSE /\ final_list' = << >>
               /\ current' = current
               /\ pc' = "panicked"
    /\ UNCHANGED << raw_opt, list_ptr, foreign_vars, result, drv_vars, prevErr, bench >>

\* A plausible slip: the status of the destroy call ignored.
create_list_destroy_unchecked ==
    /\ pc = "cl_loop"
    /\ current = NULL
    /\ \E code \in StatusCodes :
        /\ calls' = Append(calls, Event("wdi_destroy_list", list_ptr, code))
        /\ outstanding' = outstanding \ {list_ptr}
        /\ nodes' = IF code = WDI_SUCCESS THEN EmptyMem ELSE nodes
        /\ fmem' = IF code = WDI_SUCCESS THEN EmptyMem ELSE fmem
        /\ result' = Ok(final_list)
    /\ pc' = "returned"
    /\ UNCHANGED << cl_vars, given, drv_vars, prevErr, bench >>

\* A plausible slip: every failure of the destroy call reported as one
\* fixed variant.
create_list_destroy_as_resource ==
    /\ pc = "cl_loop"
    /\ current = NULL
    /\ \E code \in StatusCodes :
        /\ calls' = Append(calls, Event("wdi_destroy_list", list_ptr, code))
        /\ outstanding' = outstanding \ {list_ptr}
        /\ nodes' = IF code = WDI_SUCCESS THEN EmptyMem ELSE nodes
        /\ fmem' = IF code = WDI_SUCCESS THEN EmptyMem ELSE fmem
        /\ result' = IF IsSome(from_error_code(code))
                     THEN Err("Resource")
                     ELSE Ok(final_list)
    /\ pc' = "returned"
    /\ UNCHANGED << cl_vars, given, drv_vars, prevErr, bench >>

\* the loop has ended:
\* if let Some(e) = Error::from_error_code(wdi_destroy_list(list_ptr))
\* { return Err(e); }  Ok(final_list)
\* The foreign call frees the list when it reports success.
create_list_destroy ==
    /\ pc = "cl_loop"
    /\ current = NULL
    /\ \E code \in StatusCodes :
        /\ calls' = Append(calls, Event("wdi_destroy_list", list_ptr, code))
        /\ outstanding' = outstanding \ {list_ptr}
        /\ nodes' = IF code = WDI_SUCCESS THEN EmptyMem ELSE nodes
        /\ fmem' = IF code = WDI_SUCCESS THEN EmptyMem ELSE fmem
        /\ result' = IF IsSome(from_error_code(code))
                     THEN Err(Unwrap(from_error_code(code)))
                     ELSE Ok(final_list)
    /\ pc' = "returned"
    /\ UNCHANGED << cl_vars, given, drv_vars, prevErr, bench >>

(***************************************************************************)
(* Transient C-string buffers of prepare_driver and install_driver.        *)
(***************************************************************************)
\* the addresses the allocator gives the two buffers
PathBufAddr == 1
InfNameBufAddr == 2

\* dropping the CStrings rebuilt from the raw pointers ptrs frees their
\* buffers
drop_buffers(mem, ptrs) ==
    [a \in DOMAIN mem \ {ptrs[i] : i \in 1..Len(ptrs)} |-> mem[a]]

(***************************************************************************)
(* prepare_driver (src/src/lib.rs).                                      *)
(***************************************************************************)
\* let mut raw = device.as_raw();
\* let path_ptr = CString::new(path).unwrap().into_raw();
\* let inf_name_ptr = CString::new(inf_name).unwrap().into_raw();
\* let mut opt = options.as_raw();
\* Each unwrap panics on an interior zero byte; into_raw hands the buffer
\* over to a raw pointer, which no unwinding drops.
prepare_driver_begin ==
    \E device \in DeviceSamples, path \in StrSamples, inf_name \in StrSamples,
       options \in PrepareOptionsSamples :
        /\ pc = "idle"
        /\ UNCHANGED << cl_vars, foreign_vars, calls, result, released, ret,
                        prevErr, bench >>
        /\ args' = Some([path |-> path, inf_name |-> inf_name])
        /\ raw' = Some(DeviceInfo_as_raw(device))
        /\ IF ~IsSome(CString_new(path))
           THEN /\ path_ptr' = NULL
                /\ cbufs' = EmptyMem
                /\ opt' = None
                /\ pc' = "panicked"
           ELSE IF ~IsSome(CString_new(inf_name))
           THEN /\ path_ptr' = PathBufAddr
                /\ cbufs' = (PathBufAddr :> Unwrap(CString_new(path)))
                /\ opt' = None
                /\ pc' = "panicked"
           ELSE /\ path_ptr' = PathBufAddr
                /\ cbufs' = (PathBufAddr :> Unwrap(CString_new(path)))
                              @@ (InfNameBufAddr :> Unwrap(CString_new(inf_name)))
                /\ opt' = Some(PrepareDriverOptions_as_raw(options))
                /\ pc' = "pd_call"
        /\ inf_name_ptr' = IF pc' = "pd_call" THEN InfNameBufAddr ELSE NULL

\* A plausible slip: the call made again while the library reports a
\* transient condition.
prepare_driver_call_retry ==
    /\ pc = "pd_call"
    /\ \E code \in StatusCodes :
        /\ ret' = code
        /\ calls' = Append(calls, Event("wdi_prepare_driver", NULL, code))
        /\ pc' = IF code \in {WDI_ERROR_BUSY, WDI_ERROR_RESOURCE} /\ Len(calls) < 2
                 THEN "pd_call" ELSE "pd_release"
    /\ UNCHANGED << cl_vars, foreign_vars, result, args, raw, opt,
                    path_ptr,
                    inf_name_ptr, cbufs, released, prevErr, bench >>

\* let ret = wdi_prepare_driver(&mut raw, path_ptr, inf_name_ptr, &mut opt);
prepare_driver_call ==
    /\ pc = "pd_call"
    /\ \E code \in StatusCodes :
        /\ ret' = code
        /\ calls' = Append(calls, Event("wdi_prepare_driver", NULL, code))
    /\ pc' = "pd_release"
    /\ UNCHANGED << cl_vars, foreign_vars, result, args, raw, opt,
                    path_ptr,
                    inf_name_ptr, cbufs, released, prevErr, bench >>

\* A plausible slip: the second drop line pasted from the first and left
\* on path_ptr.
prepare_driver_release_path_twice ==
    /\ pc = "pd_release"
    /\ cbufs' = drop_buffers(cbufs, << path_ptr, path_ptr >>)
    /\ released' = released \o << path_ptr, path_ptr >>
    /\ pc' = "pd_return"
    /\ UNCHANGED << cl_vars, foreign_vars, calls, result, args, raw, opt,
                    path_ptr,
                    inf_name_ptr, ret, prevErr, bench >>

\* drop(CString::from_raw(path_ptr)); drop(CString::from_raw(inf_name_ptr));
prepare_driver_release ==
    /\ pc = "pd_release"
    /\ cbufs' = drop_buffers(cbufs, << path_ptr, inf_name_ptr >>)
    /\ released' = released \o << path_ptr, inf_name_ptr >>
    /\ pc' = "pd_return"
    /\ UNCHANGED << cl_vars, foreign_vars, calls, result, args, raw, opt,
                    path_ptr,
                    inf_name_ptr, ret, prevErr, bench >>

\* A plausible slip: the status code dropped, success reported always.
prepare_driver_return_always_ok ==
    /\ pc = "pd_return"
    /\ result' = Ok(Unit)
    /\ pc' = "returned"
    /\ UNCHANGED << cl_vars, foreign_vars, calls, drv_vars, prevErr, bench >>

\* if let Some(e) = Error::from_error_code(ret) { return Err(e); } Ok(())
prepare_driver_return ==
    /\ pc = "pd_return"
    /\ result' = IF IsSome(from_error_code(ret))
                 THEN Err(Unwrap(from_error_code(ret)))
                 ELSE Ok(Unit)
    /\ pc' = "returned"
    /\ UNCHANGED << cl_vars, foreign_vars, calls, drv_vars, prevErr, bench >>

(***************************************************************************)
(* install_driver (src/src/lib.rs).                                      *)
(***************************************************************************)
\* let mut raw = device.as_raw();
\* let path_ptr = CString::new(path).unwrap().into_raw();
\* let inf_name_ptr = CString::new(inf_name).unwrap().into_raw();
\* let mut opt = options.as_raw();
\* Each unwrap panics on an interior zero byte; into_raw hands the buffer
\* over to a raw pointer, which no unwinding drops.
install_driver_begin ==
    \E device \in DeviceSamples, path \in StrSamples, inf_name \in StrSamples,
       options \in InstallOptionsSamples :
        /\ pc = "idle"
        /\ UNCHANGED << cl_vars, foreign_vars, calls, result, released, ret,
                        prevErr, bench >>
        /\ args' = Some([path |-> path, inf_name |-> inf_name])
        /\ raw' = Some(DeviceInfo_as_raw(device))
        /\ IF ~IsSome(CString_new(path))
           THEN /\ path_ptr' = NULL
                /\ cbufs' = EmptyMem
                /\ opt' = None
                /\ pc' = "panicked"
           ELSE IF ~IsSome(CString_new(inf_name))
           THEN /\ path_ptr' = PathBufAddr
                /\ cbufs' = (PathBufAddr :> Unwrap(CString_new(path)))
                /\ opt' = None
                /\ pc' = "panicked"
           ELSE /\ path_ptr' = PathBufAddr
                /\ cbufs' = (PathBufAddr :> Unwrap(CString_new(path)))
                              @@ (InfNameBufAddr :> Unwrap(CString_new(inf_name)))
                /\ opt' = Some(InstallDriverOptions_as_raw(options))
                /\ pc' = "id_call"
        /\ inf_name_ptr' = IF pc' = "id_call" THEN InfNameBufAddr ELSE NULL

\* let ret = wdi_install_driver(&mut raw, path_ptr, inf_name_ptr, &mut opt);
install_driver_call ==
    /\ pc = "id_call"
    /\ \E code \in StatusCodes :
        /\ ret' = code
        /\ calls' = Append(calls, Event("wdi_install_driver", NULL, code))
    /\ pc' = "id_release"
    /\ UNCHANGED << cl_vars, foreign_vars, result, args, raw, opt,
                    path_ptr,
                    inf_name_ptr, cbufs, released, prevErr, bench >>

\* drop(CString::from_raw(path_ptr)); drop(CString::from_raw(inf_name_ptr));
install_driver_release ==
    /\ pc = "id_release"
    /\ cbufs' = drop_buffers(cbufs, << path_ptr, inf_name_ptr >>)
    /\ released' = released \o << path_ptr, inf_name_ptr >>
    /\ pc' = "id_return"
    /\ UNCHANGED << cl_vars, foreign_vars, calls, result, args, raw, opt,
                    path_ptr,
                    inf_name_ptr, ret, prevErr, bench >>

\* if let Some(e) = Error::from_error_code(ret) { return Err(e); } Ok(())
install_driver_return ==
    /\ pc = "id_return"
    /\ result' = IF IsSome(from_error_code(ret))
                 THEN Err(Unwrap(from_error_code(ret)))
                 ELSE Ok(Unit)
    /\ pc' = "returned"
    /\ UNCHANGED << cl_vars, foreign_vars, calls, drv_vars, prevErr, bench >>

(***************************************************************************)
(* The specification.                                                      *)
(***************************************************************************)
Next ==
    \/ return_to_caller
    \/ create_list_begin
    \/ create_list_enumerate
    \/ create_list_check
    \/ create_list_loop
    \/ create_list_destroy
    \/ prepare_driver_begin
    \/ prepare_driver_call
    \/ prepare_driver_release
    \/ prepare_driver_return
    \/ install_driver_begin
    \/ install_driver_call
    \/ install_driver_release
    \/ install_driver_return

Spec == Init /\ [][Next]_vars

\* The operations run sequentially on the caller's thread: a traversal that
\* can take its next turn takes it, and so does the destroy call after it.
SpecLive ==
    /\ Init
    /\ [][Next]_vars
    /\ WF_vars(create_list_loop)
    /\ WF_vars(create_list_destroy)


(***************************************************************************)
(* Enumeration Domain (src/src/lib.rs, DriverType).                        *)
(***************************************************************************)
DriverTypeVariants == {"WinUsb", "Libusb0", "LibusbK", "User"}

\* the value of Err(DriverTypeConversionError)
DriverTypeConversionError == "DriverTypeConversionError"

\* A plausible slip: the default variant substituted for an invalid code.
DriverType_from_raw_defaulting(r) ==
    CASE r = WDI_WINUSB -> Ok("WinUsb")
      [] r = WDI_LIBUSB0 -> Ok("Libusb0")
      [] r = WDI_LIBUSBK -> Ok("LibusbK")
      [] r = WDI_USER -> Ok("User")
      [] OTHER -> Ok("WinUsb")

\* DriverType::from_raw: Result<DriverType, DriverTypeConversionError>
DriverType_from_raw(r) ==
    CASE r = WDI_WINUSB -> Ok("WinUsb")
      [] r = WDI_LIBUSB0 -> Ok("Libusb0")
      [] r = WDI_LIBUSBK -> Ok("LibusbK")
      [] r = WDI_USER -> Ok("User")
      [] OTHER -> Err(DriverTypeConversionError)

\* <DriverType as TryFrom<i32>>::try_from
DriverType_try_from(other) == DriverType_from_raw(other)

(***************************************************************************)
(* The conversions applied on their own: each action draws an input,       *)
(* applies one conversion as the code computes it, and records the output. *)
(***************************************************************************)
\* integer codes are drawn from -MaxCode..MaxCode
MaxCode == 12
CodeRange == (0 - MaxCode)..MaxCode

op_vars == << pc, raw_opt, list_ptr, current, final_list, nodes, fmem,
              outstanding, given, calls, result, args, raw, opt, path_ptr,
              inf_name_ptr, cbufs, released, ret, prevErr >>

Applied(fn, arg, out) == [fn |-> fn, arg |-> arg, out |-> out]

\* Error::from_error_code(code)
apply_from_error_code ==
    /\ bench = NoBench
    /\ \E code \in CodeRange :
        bench' = Applied("from_error_code", code, from_error_code(code))
    /\ UNCHANGED op_vars

\* DriverType::from_raw(r), DriverType::try_from(r), and the variant
\* converted back with `as i32`
apply_DriverType_from_raw ==
    /\ bench = NoBench
    /\ \E r \in CodeRange :
        bench' = Applied("DriverType::from_raw", r,
                    [from_raw |-> DriverType_from_raw(r),
                     try_from |-> DriverType_try_from(r),
                     back |-> IF DriverType_from_raw(r).kind = "Ok"
                              THEN Some(DriverType_as_i32(DriverType_from_raw(r).val))
                              ELSE None])
    /\ UNCHANGED op_vars

\* CreateListOptions::as_raw, then CreateListOptions::from_raw of it
apply_CreateListOptions_round_trip ==
    /\ bench = NoBench
    /\ \E options \in CreateListOptionsValues :
        bench' = Applied("CreateListOptions", options,
                    [raw |-> CreateListOptions_as_raw(options),
                     back |-> CreateListOptions_from_raw(CreateListOptions_as_raw(options))])
    /\ UNCHANGED op_vars

\* well-formed C-string buffers: one zero byte, at the end
WellFormedBuffers == {<< 0 >>, << 65, 0 >>}

\* buffers that are no C string, or hold more than one
IllFormedBuffers == {<< >>, << 65 >>, << 0, 65, 0 >>}

\* the scalar fields take two profiles
ScalarProfiles ==
    {[vid |-> 1, pid |-> 2, is_composite |-> FALSE, mi |-> 0, driver_version |-> 0],
     [vid |-> 65535, pid |-> 3, is_composite |-> TRUE, mi |-> 255, driver_version |-> 7]}

\* DeviceInfo values over the buffers bufs, with every combination of
\* present and absent optional fields
DeviceInfoOver(bufs) ==
    LET Opt == {None} \cup {Some(b) : b \in bufs}
    IN {[vid |-> p.vid, pid |-> p.pid, is_composite |-> p.is_composite,
         mi |-> p.mi, desc |-> d, driver |-> o[1], device_id |-> o[2],
         hardware_id |-> o[3], compatible_id |-> o[4], upper_filter |-> o[5],
         driver_version |-> p.driver_version] :
          p \in ScalarProfiles, d \in bufs, o \in [1..5 -> Opt]}

WellFormedDeviceInfos == DeviceInfoOver(WellFormedBuffers)

\* values whose buffers are all ill-formed in the same way
IllFormedDeviceInfos == UNION {DeviceInfoOver({b}) : b \in IllFormedBuffers}

\* DeviceInfo::as_raw of any value
apply_DeviceInfo_as_raw ==
    /\ bench = NoBench
    /\ \E self \in WellFormedDeviceInfos \cup IllFormedDeviceInfos :
        bench' = Applied("DeviceInfo::as_raw", self, DeviceInfo_as_raw(self))
    /\ UNCHANGED op_vars

\* DeviceInfo::as_raw of a well-formed value, then
\* DeviceInfo::clone_from_raw of the raw struct
apply_DeviceInfo_round_trip ==
    /\ bench = NoBench
    /\ \E self \in WellFormedDeviceInfos :
        bench' = Applied("DeviceInfo round trip", self,
                    clone_from_raw(DeviceInfo_as_raw(self).raw,
                                   DeviceInfo_as_raw(self).mem))
    /\ UNCHANGED op_vars

\* the scalar fields of a raw node take two profiles
RawScalarProfiles ==
    {[vid |-> 1, pid |-> 2, is_composite |-> 0, mi |-> 0, driver_version |-> 0],
     [vid |-> 65535, pid |-> 3, is_composite |-> 2, mi |-> 255, driver_version |-> 7]}

\* raw nodes whose string pointers are null or point into ForeignStrings
RawDeviceValues ==
    {[next |-> NULL, vid |-> p.vid, pid |-> p.pid,
      is_composite |-> p.is_composite, mi |-> p.mi, desc |-> d,
      driver |-> o[1], device_id |-> o[2], hardware_id |-> o[3],
      compatible_id |-> o[4], upper_filter |-> o[5],
      driver_version |-> p.driver_version] :
        p \in RawScalarProfiles,
        d \in {NULL} \cup DOMAIN ForeignStrings,
        o \in [1..5 -> {NULL, 1, 2}]}

\* DeviceInfo::clone_from_raw of any raw node
apply_clone_from_raw ==
    /\ bench = NoBench
    /\ \E r \in RawDeviceValues :
        bench' = Applied("DeviceInfo::clone_from_raw", r, clone_from_raw(r, ForeignStrings))
    /\ UNCHANGED op_vars

(***************************************************************************)
(* PrepareDriverOptions (src/src/lib.rs): builder, getters, clone_from_raw.*)
(* A CString is modelled by its content, the bytes before the terminator.  *)
(***************************************************************************)
\* CString::into_bytes_with_nul
CString_into_bytes_with_nul(c) == c \o << 0 >>

\* Option<CString>::map(|s| s.into_bytes_with_nul())
map_into_bytes_with_nul(o) ==
    IF IsSome(o) THEN Some(CString_into_bytes_with_nul(Unwrap(o))) ELSE None

\* CStr::from_bytes_with_nul: the content when bytes ends with a zero byte
\* and holds no other, else an error (None)
CStr_from_bytes_with_nul(bytes) ==
    IF /\ Len(bytes) >= 1
       /\ bytes[Len(bytes)] = 0
       /\ \A i \in 1..(Len(bytes) - 1) : bytes[i] # 0
    THEN Some(SubSeq(bytes, 1, Len(bytes) - 1))
    ELSE None

PrepareDriverOptions_driver_type(self, driver_type) ==
    [self EXCEPT !.driver_type = driver_type]

PrepareDriverOptions_vendor_name(self, vendor_name) ==
    [self EXCEPT !.vendor_name = map_into_bytes_with_nul(vendor_name)]

PrepareDriverOptions_device_guid(self, device_guid) ==
    [self EXCEPT !.device_guid = map_into_bytes_with_nul(device_guid)]

\* A plausible slip: the struct update written with the neighbouring field
\* as well.
PrepareDriverOptions_disable_cat_and_signing(self, disable_cat) ==
    [self EXCEPT !.disable_cat = disable_cat, !.disable_signing = disable_cat]

PrepareDriverOptions_disable_cat(self, disable_cat) ==
    [self EXCEPT !.disable_cat = disable_cat]

PrepareDriverOptions_disable_signing(self, disable_signing) ==
    [self EXCEPT !.disable_signing = disable_signing]

\* A plausible slip: a terminator pushed onto bytes that already end with
\* one.
PrepareDriverOptions_cert_subject_double_nul(self, cert_subject) ==
    [self EXCEPT !.cert_subject =
        IF IsSome(cert_subject)
        THEN Some(CString_into_bytes_with_nul(Unwrap(cert_subject)) \o << 0 >>)
        ELSE None]

PrepareDriverOptions_cert_subject(self, cert_subject) ==
    [self EXCEPT !.cert_subject = map_into_bytes_with_nul(cert_subject)]

PrepareDriverOptions_use_wcid_driver(self, use_wcid_driver) ==
    [self EXCEPT !.use_wcid_driver = use_wcid_driver]

PrepareDriverOptions_external_inf(self, external_inf) ==
    [self EXCEPT !.external_inf = external_inf]

\* a string getter: None for an absent field, the CStr of a present one,
\* a panic ("Unreachable") when the bytes are no C string
get_cstr(field) ==
    IF ~IsSome(field)
    THEN Returned(None)
    ELSE IF IsSome(CStr_from_bytes_with_nul(Unwrap(field)))
         THEN Returned(Some(Unwrap(CStr_from_bytes_with_nul(Unwrap(field)))))
         ELSE Panicked

get_driver_type(self) == self.driver_type
get_vendor_name(self) == get_cstr(self.vendor_name)
get_device_guid(self) == get_cstr(self.device_guid)
get_disable_cat(self) == self.disable_cat
get_disable_signing(self) == self.disable_signing
get_cert_subject(self) == get_cstr(self.cert_subject)
get_use_wcid_driver(self) == self.use_wcid_driver
get_external_inf(self) == self.external_inf

\* A plausible slip: an invalid driver type code replaced by the default.
PrepareDriverOptions_clone_from_raw_defaulting(rawopt, mem) ==
    Returned([driver_type |-> DriverType_from_raw_defaulting(rawopt.driver_type).val,
              vendor_name |-> clone_opt_string(mem, rawopt.vendor_name),
              device_guid |-> clone_opt_string(mem, rawopt.device_guid),
              disable_cat |-> rawopt.disable_cat # 0,
              disable_signing |-> rawopt.disable_signing # 0,
              cert_subject |-> clone_opt_string(mem, rawopt.cert_subject),
              use_wcid_driver |-> rawopt.use_wcid_driver # 0,
              external_inf |-> rawopt.external_inf # 0])

\* PrepareDriverOptions::clone_from_raw: panics when raw.driver_type is no
\* driver type (try_into().expect(..)), else the deep copy
PrepareDriverOptions_clone_from_raw(rawopt, mem) ==
    IF DriverType_try_from(rawopt.driver_type).kind # "Ok"
    THEN Panicked
    ELSE Returned([driver_type |-> DriverType_try_from(rawopt.driver_type).val,
                   vendor_name |-> clone_opt_string(mem, rawopt.vendor_name),
                   device_guid |-> clone_opt_string(mem, rawopt.device_guid),
                   disable_cat |-> rawopt.disable_cat # 0,
                   disable_signing |-> rawopt.disable_signing # 0,
                   cert_subject |-> clone_opt_string(mem, rawopt.cert_subject),
                   use_wcid_driver |-> rawopt.use_wcid_driver # 0,
                   external_inf |-> rawopt.external_inf # 0])

(***************************************************************************)
(* DeviceInfo::clone_from_raw at the level of memory: `to_vec()` allocates *)
(* a buffer the new value owns and copies the C string into it.            *)
(***************************************************************************)
\* where the allocator puts the buffer of each field of the new value
OwnedAddrs ==
    [desc |-> 11, driver |-> 12, device_id |-> 13, hardware_id |-> 14,
     compatible_id |-> 15, upper_filter |-> 16]

\* A plausible slip: the foreign bytes borrowed, not copied.
cstr_to_vec_borrowing(heap, p, addr) == [ptr |-> p, heap |-> heap]

\* CStr::from_ptr(p).to_bytes_with_nul().to_vec(): a new buffer at addr
\* holding a copy of the C string at p
cstr_to_vec(heap, p, addr) ==
    [ptr |-> addr, heap |-> (addr :> CStr_from_ptr(heap, p)) @@ heap]

\* one optional field: if !p.is_null() { Some(..to_vec()) } else { None }
clone_opt_to_vec(heap, p, addr) ==
    IF p # NULL
    THEN [val |-> Some(cstr_to_vec(heap, p, addr).ptr),
          heap |-> cstr_to_vec(heap, p, addr).heap]
    ELSE [val |-> None, heap |-> heap]

\* DeviceInfo::clone_from_raw with its allocations: the new value, each
\* string field the address of its buffer, and the memory afterwards
clone_from_raw_owned(node, heap) ==
    IF node.desc = NULL
    THEN Panicked
    ELSE LET desc == cstr_to_vec(heap, node.desc, OwnedAddrs.desc)
             driver == clone_opt_to_vec(desc.heap, node.driver, OwnedAddrs.driver)
             device_id == clone_opt_to_vec(driver.heap, node.device_id, OwnedAddrs.device_id)
             hardware_id == clone_opt_to_vec(device_id.heap, node.hardware_id, OwnedAddrs.hardware_id)
             compatible_id == clone_opt_to_vec(hardware_id.heap, node.compatible_id, OwnedAddrs.compatible_id)
             upper_filter == clone_opt_to_vec(compatible_id.heap, node.upper_filter, OwnedAddrs.upper_filter)
         IN Returned([info |-> [vid |-> node.vid,
                                pid |-> node.pid,
                                is_composite |-> node.is_composite # 0,
                                mi |-> node.mi,
                                desc |-> desc.ptr,
                                driver |-> driver.val,
                                device_id |-> device_id.val,
                                hardware_id |-> hardware_id.val,
                                compatible_id |-> compatible_id.val,
                                upper_filter |-> upper_filter.val,
                                driver_version |-> node.driver_version],
                       heap |-> upper_filter.heap])

\* raw nodes cloned here: one scalar profile, every combination of pointers
OwnedRawSamples == {r \in RawDeviceValues : r.vid = 1}

\* what the foreign library may do to its memory afterwards: release it
\* (as wdi_destroy_list does), overwrite every string, or put other strings
\* of the list at the same addresses
ForeignChanges == {"released", "overwritten", "reused"}
ForeignChange(heap, change) ==
    CASE change = "released" ->
            [a \in DOMAIN heap \ DOMAIN ForeignStrings |-> heap[a]]
      [] change = "overwritten" ->
            [a \in DOMAIN heap |->
                IF a \in DOMAIN ForeignStrings THEN << 90, 90, 0 >> ELSE heap[a]]
      [] change = "reused" ->
            [a \in DOMAIN heap |->
                IF a \in DOMAIN ForeignStrings
                THEN ForeignStrings[(a % 3) + 1]
                ELSE heap[a]]

\* DeviceInfo::clone_from_raw of a node in foreign memory
apply_clone_from_raw_owned ==
    /\ bench = NoBench
    /\ \E r \in OwnedRawSamples :
        bench' = Applied("clone_from_raw, owned", r, clone_from_raw_owned(r, ForeignStrings))
    /\ UNCHANGED op_vars

\* afterwards the foreign library changes or releases the memory the node
\* pointed into; the memory the DeviceInfo owns is not the library's
foreign_change_after_clone ==
    /\ bench.fn = "clone_from_raw, owned"
    /\ HasReturned(bench.out)
    /\ \E change \in ForeignChanges :
        bench' = Applied("clone_from_raw, owned, foreign memory changed", bench.arg,
                    Returned([info |-> bench.out[1].info,
                              heap |-> ForeignChange(bench.out[1].heap, change)]))
    /\ UNCHANGED op_vars

(***************************************************************************)
(* A PrepareDriverOptions value in the hands of a caller: made by          *)
(* default() or clone_from_raw, then passed through builder calls.  bench  *)
(* holds the value (out) and, per field, the argument of the last call     *)
(* that set it (arg; None while the field was never set).                  *)
(***************************************************************************)
\* C strings a caller passes to the string builder methods
CStringArgs == {None, Some(<< >>), Some(<< 68 >>)}

NeverSet ==
    [driver_type |-> None, vendor_name |-> None, device_guid |-> None,
     disable_cat |-> None, disable_signing |-> None, cert_subject |-> None,
     use_wcid_driver |-> None, external_inf |-> None]

\* raw options structs: valid and invalid driver type codes, string
\* pointers null or into ForeignStrings, flags 0 and non-zero
RawPrepareOptionsValues ==
    {[driver_type |-> t, vendor_name |-> o[1], device_guid |-> o[2],
      disable_cat |-> f[1], disable_signing |-> f[2], cert_subject |-> o[3],
      use_wcid_driver |-> f[3], external_inf |-> f[4]] :
        t \in (WDI_WINUSB - 1)..(WDI_USER + 1),
        o \in [1..3 -> {NULL, 2, 3}],
        f \in {<< 0, 0, 0, 0 >>, << 1, 2, 0, 1 >>}}

\* the content of the C string at p, as the argument that would set it
CStringAt(mem, p) ==
    IF p = NULL THEN None
    ELSE Some(SubSeq(mem[p], 1, ScanToNul(mem[p], 1) - 1))

\* PrepareDriverOptions::default()
new_default ==
    /\ bench = NoBench
    /\ bench' = Applied("PrepareDriverOptions", NeverSet, PrepareDriverOptions_default)
    /\ UNCHANGED op_vars

\* PrepareDriverOptions::clone_from_raw of a raw struct of valid C strings
\* that it accepts: every field is set from the struct
new_clone_from_raw ==
    /\ bench = NoBench
    /\ \E r \in RawPrepareOptionsValues :
        /\ HasReturned(PrepareDriverOptions_clone_from_raw(r, ForeignStrings))
        /\ bench' = Applied("PrepareDriverOptions",
                      [driver_type |-> Some(DriverType_try_from(r.driver_type).val),
                       vendor_name |-> Some(CStringAt(ForeignStrings, r.vendor_name)),
                       device_guid |-> Some(CStringAt(ForeignStrings, r.device_guid)),
                       disable_cat |-> Some(r.disable_cat # 0),
                       disable_signing |-> Some(r.disable_signing # 0),
                       cert_subject |-> Some(CStringAt(ForeignStrings, r.cert_subject)),
                       use_wcid_driver |-> Some(r.use_wcid_driver # 0),
                       external_inf |-> Some(r.external_inf # 0)],
                      PrepareDriverOptions_clone_from_raw(r, ForeignStrings)[1])
    /\ UNCHANGED op_vars

\* options.driver_type(driver_type)
call_driver_type ==
    /\ bench.fn = "PrepareDriverOptions"
    /\ \E driver_type \in DriverTypeVariants :
        bench' = Applied("PrepareDriverOptions",
                    [bench.arg EXCEPT !.driver_type = Some(driver_type)],
                    PrepareDriverOptions_driver_type(bench.out, driver_type))
    /\ UNCHANGED op_vars

\* options.vendor_name(vendor_name)
call_vendor_name ==
    /\ bench.fn = "PrepareDriverOptions"
    /\ \E vendor_name \in CStringArgs :
        bench' = Applied("PrepareDriverOptions",
                    [bench.arg EXCEPT !.vendor_name = Some(vendor_name)],
                    PrepareDriverOptions_vendor_name(bench.out, vendor_name))
    /\ UNCHANGED op_vars

\* options.device_guid(device_guid)
call_device_guid ==
    /\ bench.fn = "PrepareDriverOptions"
    /\ \E device_guid \in CStringArgs :
        bench' = Applied("PrepareDriverOptions",
                    [bench.arg EXCEPT !.device_guid = Some(device_guid)],
                    PrepareDriverOptions_device_guid(bench.out, device_guid))
    /\ UNCHANGED op_vars

\* options.disable_cat(disable_cat)
call_disable_cat ==
    /\ bench.fn = "PrepareDriverOptions"
    /\ \E disable_cat \in BOOLEAN :
        bench' = Applied("PrepareDriverOptions",
                    [bench.arg EXCEPT !.disable_cat = Some(disable_cat)],
                    PrepareDriverOptions_disable_cat(bench.out, disable_cat))
    /\ UNCHANGED op_vars

\* options.disable_signing(disable_signing)
call_disable_signing ==
    /\ bench.fn = "PrepareDriverOptions"
    /\ \E disable_signing \in BOOLEAN :
        bench' = Applied("PrepareDriverOptions",
                    [bench.arg EXCEPT !.disable_signing = Some(disable_signing)],
                    PrepareDriverOptions_disable_signing(bench.out, disable_signing))
    /\ UNCHANGED op_vars

\* options.cert_subject(cert_subject)
call_cert_subject ==
    /\ bench.fn = "PrepareDriverOptions"
    /\ \E cert_subject \in CStringArgs :
        bench' = Applied("PrepareDriverOptions",
                    [bench.arg EXCEPT !.cert_subject = Some(cert_subject)],
                    PrepareDriverOptions_cert_subject(bench.out, cert_subject))
    /\ UNCHANGED op_vars

\* options.use_wcid_driver(use_wcid_driver)
call_use_wcid_driver ==
    /\ bench.fn = "PrepareDriverOptions"
    /\ \E use_wcid_driver \in BOOLEAN :
        bench' = Applied("PrepareDriverOptions",
                    [bench.arg EXCEPT !.use_wcid_driver = Some(use_wcid_driver)],
                    PrepareDriverOptions_use_wcid_driver(bench.out, use_wcid_driver))
    /\ UNCHANGED op_vars

\* options.external_inf(external_inf)
call_external_inf ==
    /\ bench.fn = "PrepareDriverOptions"
    /\ \E external_inf \in BOOLEAN :
        bench' = Applied("PrepareDriverOptions",
                    [bench.arg EXCEPT !.external_inf = Some(external_inf)],
                    PrepareDriverOptions_external_inf(bench.out, external_inf))
    /\ UNCHANGED op_vars

\* the eight getters of the value
apply_getters ==
    /\ bench.fn = "PrepareDriverOptions"
    /\ bench' = Applied("PrepareDriverOptions getters", bench.arg,
                  [self |-> bench.out,
                   get_driver_type |-> get_driver_type(bench.out),
                   get_vendor_name |-> get_vendor_name(bench.out),
                   get_device_guid |-> get_device_guid(bench.out),
                   get_disable_cat |-> get_disable_cat(bench.out),
                   get_disable_signing |-> get_disable_signing(bench.out),
                   get_cert_subject |-> get_cert_subject(bench.out),
                   get_use_wcid_driver |-> get_use_wcid_driver(bench.out),
                   get_external_inf |-> get_external_inf(bench.out)])
    /\ UNCHANGED op_vars

\* options.as_raw(), then PrepareDriverOptions::clone_from_raw of the raw
\* struct
apply_PrepareDriverOptions_round_trip ==
    /\ bench.fn = "PrepareDriverOptions"
    /\ bench' = Applied("PrepareDriverOptions round trip", bench.out,
                  PrepareDriverOptions_clone_from_raw(
                      PrepareDriverOptions_as_raw(bench.out).raw,
                      PrepareDriverOptions_as_raw(bench.out).mem))
    /\ UNCHANGED op_vars

\* PrepareDriverOptions::clone_from_raw of any raw struct of valid C strings
apply_PrepareDriverOptions_clone_from_raw ==
    /\ bench = NoBench
    /\ \E r \in RawPrepareOptionsValues :
        bench' = Applied("PrepareDriverOptions::clone_from_raw", r,
                    PrepareDriverOptions_clone_from_raw(r, ForeignStrings))
    /\ UNCHANGED op_vars

NextFn ==
    \/ new_default
    \/ new_clone_from_raw
    \/ call_driver_type
    \/ call_vendor_name
    \/ call_device_guid
    \/ call_disable_cat
    \/ call_disable_signing
    \/ call_cert_subject
    \/ call_use_wcid_driver
    \/ call_external_inf
    \/ apply_getters
    \/ apply_PrepareDriverOptions_round_trip
    \/ apply_PrepareDriverOptions_clone_from_raw
    \/ apply_clone_from_raw_owned
    \/ foreign_change_after_clone
    \/ apply_clone_from_raw
    \/ apply_DeviceInfo_as_raw
    \/ apply_DeviceInfo_round_trip
    \/ apply_CreateListOptions_round_trip
    \/ apply_from_error_code
    \/ apply_DriverType_from_raw

SpecFn == Init /\ [][NextFn]_vars

(***************************************************************************)
(* Properties.                                                             *)
(***************************************************************************)
\* the six status codes of the Error Domain and the variant of each
RecognizedCodes ==
    {WDI_ERROR_INVALID_PARAM, WDI_ERROR_ACCESS, WDI_ERROR_RESOURCE,
     WDI_ERROR_NOT_FOUND, WDI_ERROR_NO_DEVICE, WDI_ERROR_BUSY}
VariantOf(code) ==
    CASE code = WDI_ERROR_INVALID_PARAM -> "InvalidParam"
      [] code = WDI_ERROR_ACCESS -> "Access"
      [] code = WDI_ERROR_RESOURCE -> "Resource"
      [] code = WDI_ERROR_NOT_FOUND -> "NotFound"
      [] code = WDI_ERROR_NO_DEVICE -> "NoDevice"
      [] code = WDI_ERROR_BUSY -> "Busy"

InCreateList == IsSome(raw_opt)
InDriverOp == IsSome(raw)
Ended == pc \in {"returned", "panicked"}
Enumerated == InCreateList /\ Len(calls) >= 1
EnumCode == calls[1].ret
LastCall == calls[Len(calls)]
ReadIndexes == {i \in 1..Len(calls) : calls[i].fn = "read"}
DestroyIndexes == {i \in 1..Len(calls) : calls[i].fn = "wdi_destroy_list"}
\* the owned copies of the nodes handed out, head to tail
CopiesOfGiven ==
    [i \in 1..Len(given) |-> Unwrap(clone_from_raw(given[i], ForeignStrings))]

\* C1: when the enumeration call hands back n >= 1 nodes with a success
\* status, every desc is non-null and the destroy call reports success,
\* create_list returns Ok with exactly n values, the i-th being the deep
\* copy of the i-th node in head-to-tail order.
C1_CollectsInOrder ==
    ( /\ Enumerated
      /\ pc = "returned"
      /\ EnumCode = WDI_SUCCESS
      /\ Len(given) >= 1
      /\ \A i \in 1..Len(given) : given[i].desc # NULL
      /\ LastCall.fn = "wdi_destroy_list"
      /\ LastCall.ret = WDI_SUCCESS )
    => /\ result.kind = "Ok"
       /\ Len(result.val) = Len(given)
       /\ \A i \in 1..Len(given) :
            /\ result.val[i] = Unwrap(clone_from_raw(given[i], ForeignStrings))
            /\ result.val[i].vid = given[i].vid
            /\ result.val[i].pid = given[i].pid
            /\ IsSome(result.val[i].driver) <=> given[i].driver # NULL

\* a list of two different nodes, collected and returned
C1_Witness ==
    /\ Enumerated
    /\ pc = "returned"
    /\ EnumCode = WDI_SUCCESS
    /\ LastCall.fn = "wdi_destroy_list"
    /\ LastCall.ret = WDI_SUCCESS
    /\ Len(given) = 2
    /\ given[1] # given[2]
    /\ result.kind = "Ok"
    /\ Len(result.val) = 2

\* C2 (as claimed): in every run of create_list in which the enumeration
\* call succeeds with a non-null head, the destroy call is made exactly
\* once, on the list head, after the last node read: no read follows it, and
\* when the run has ended it has been made.
C2_DestroyExactlyOnce ==
    ( /\ Enumerated
      /\ EnumCode = WDI_SUCCESS
      /\ list_ptr # NULL )
    => /\ Cardinality(DestroyIndexes) <= 1
       /\ \A d \in DestroyIndexes :
            /\ calls[d].arg = list_ptr
            /\ \A r \in ReadIndexes : r < d
            /\ Cardinality(ReadIndexes) = Len(given)
       /\ Ended => Cardinality(DestroyIndexes) = 1

\* C3 (as claimed): for a list of 0 nodes handed back with a success status,
\* create_list produces a sequence of length 0 and the destroy call is
\* observed exactly once.
C3_EmptyListGivesEmptyVec ==
    ( /\ Enumerated
      /\ Ended
      /\ EnumCode = WDI_SUCCESS
      /\ Len(given) = 0 )
    => /\ result = Ok(<< >>)
       /\ Cardinality(DestroyIndexes) = 1

\* C3 (amended): for a list of 0 nodes handed back with a success status
\* (the head is null), create_list panics once the head is checked: it
\* produces no sequence and the destroy call is not made.
C3_EmptyListPanics ==
    ( /\ Enumerated
      /\ pc # "cl_check"
      /\ EnumCode = WDI_SUCCESS
      /\ Len(given) = 0 )
    => /\ pc = "panicked"
       /\ result = NoResult
       /\ DestroyIndexes = {}

\* the empty list with a success status, after the head check
C3_Witness ==
    /\ Enumerated
    /\ EnumCode = WDI_SUCCESS
    /\ Len(given) = 0
    /\ list_ptr = NULL
    /\ pc = "panicked"

\* C4 (as claimed): an operation never returns Ok when a foreign call of it
\* returned a non-zero status code that is not one of the six recognized.
C4_UnknownCodeNeverOk ==
    (pc = "returned" /\ result.kind = "Ok")
    => \A i \in 1..Len(calls) :
         calls[i].ret = WDI_SUCCESS \/ calls[i].ret \in RecognizedCodes

\* C5: when the enumeration call returns one of the six recognized error
\* codes, create_list returns Err with the corresponding variant at once:
\* no node is read, no DeviceInfo is produced, the destroy call is not made.
C5_EnumerateErrorReturned ==
    (Enumerated /\ EnumCode \in RecognizedCodes)
    => /\ pc = "returned"
       /\ result = Err(VariantOf(EnumCode))
       /\ Len(calls) = 1
       /\ final_list = << >>

\* the enumeration call has failed with Busy
C5_Witness ==
    /\ Enumerated
    /\ EnumCode = WDI_ERROR_BUSY
    /\ pc = "returned"
    /\ result.kind = "Err"

\* C6: when the enumeration call returns no recognized error code but leaves
\* the head null, create_list panics once the head is checked: it returns
\* neither Ok nor Err, reads no node and does not make the destroy call.
C6_NullHeadPanics ==
    ( /\ Enumerated
      /\ pc # "cl_check"
      /\ EnumCode \notin RecognizedCodes
      /\ list_ptr = NULL )
    => /\ pc = "panicked"
       /\ result.kind = "None"
       /\ Len(calls) = 1

\* an unrecognized non-zero status with a null head, after the head check
C6_Witness ==
    /\ Enumerated
    /\ EnumCode \in UnknownCodes
    /\ list_ptr = NULL
    /\ pc = "panicked"
    /\ result.kind = "None"

\* C7: no partial success: when the destroy call returns a recognized error
\* code after the traversal, create_list returns Err with that variant and
\* no sequence; an Ok carries the whole list, an Err carries none of it.
C7_AllOrNothing ==
    (InCreateList /\ pc = "returned")
    => /\ (LastCall.fn = "wdi_destroy_list" /\ LastCall.ret \in RecognizedCodes)
            => result = Err(VariantOf(LastCall.ret))
       /\ result.kind \in {"Ok", "Err"}
       /\ result.kind = "Ok" => result.val = CopiesOfGiven
       /\ result.kind = "Err" => result.val = << >>

\* a traversal of two nodes followed by a failing destroy call
C7_Witness ==
    /\ InCreateList
    /\ pc = "returned"
    /\ Len(given) = 2
    /\ Cardinality(ReadIndexes) = 2
    /\ LastCall.fn = "wdi_destroy_list"
    /\ LastCall.ret = WDI_ERROR_ACCESS
    /\ result.kind = "Err"

\* create_list has just returned an error for the status code an earlier
\* create_list failed with, in the other phase
SameCodeOtherPhase ==
    /\ InCreateList
    /\ pc = "returned"
    /\ result.kind = "Err"
    /\ prevErr.phase # "none"
    /\ prevErr.phase # ErrPhase
    /\ prevErr.code = LastCall.ret

\* C8 (as claimed): for the same status code, the value create_list returns
\* for a destroy-phase error differs from the one it returns for an
\* enumerate-phase error.
C8_PhaseToldApart == SameCodeOtherPhase => result # prevErr.result

\* C8 (amended): for the same status code, create_list returns the same
\* Err value for a destroy-phase error as for an enumerate-phase error: the
\* returned value does not tell the phase.
C8_PhaseNotToldApart == SameCodeOtherPhase => result = prevErr.result

\* a destroy-phase NotFound after an enumerate-phase NotFound
C8_Witness ==
    /\ SameCodeOtherPhase
    /\ ErrPhase = "destroy"
    /\ LastCall.ret = WDI_ERROR_NOT_FOUND

\* C9 (as claimed): whenever create_list ends, by Ok, by Err or by a panic
\* during the traversal, every list the enumeration call handed out has
\* been passed to the destroy call.
C9_NoListLeftAllocated == (InCreateList /\ Ended) => outstanding = {}

\* C10 (as claimed): in prepare_driver and install_driver every transient
\* C-string buffer allocated is released on every exit path, the panic on
\* an inf_name that cannot be encoded included.
C10_BuffersReleasedOnEveryExit == (InDriverOp /\ Ended) => DOMAIN cbufs = {}

\* the foreign functions, and the calls of each made so far in this
\* invocation
ForeignFns ==
    {"wdi_create_list", "wdi_destroy_list", "wdi_prepare_driver", "wdi_install_driver"}
CallIndexes(fn) == {i \in 1..Len(calls) : calls[i].fn = fn}
ForeignCallIndexes == {i \in 1..Len(calls) : calls[i].fn \in ForeignFns}

\* C11 (as claimed): each public operation invokes exactly one foreign call
\* per invocation.
C11_ExactlyOneForeignCall ==
    ((InCreateList \/ InDriverOp) /\ Ended) => Cardinality(ForeignCallIndexes) = 1

\* C11 (amended): prepare_driver and install_driver invoke exactly one
\* foreign call in every invocation that returns, and none when encoding
\* path or inf_name panics; create_list invokes wdi_create_list exactly once
\* and, whenever it returns without an enumerate-phase error, also
\* wdi_destroy_list exactly once after it: two foreign calls; it makes no
\* destroy call when it returns the enumerate-phase error or panics.
C11_ForeignCallCount ==
    /\ (InDriverOp /\ pc = "returned")
         => /\ Cardinality(ForeignCallIndexes) = 1
            /\ calls[1].fn \in {"wdi_prepare_driver", "wdi_install_driver"}
    /\ (InDriverOp /\ pc = "panicked") => ForeignCallIndexes = {}
    /\ (InCreateList /\ Ended)
         => /\ CallIndexes("wdi_create_list") = {1}
            /\ (pc = "returned" /\ EnumCode \notin RecognizedCodes)
                 => /\ CallIndexes("wdi_destroy_list") = {Len(calls)}
                    /\ Cardinality(ForeignCallIndexes) = 2
            /\ (pc = "panicked" \/ EnumCode \in RecognizedCodes)
                 => /\ CallIndexes("wdi_destroy_list") = {}
                    /\ Cardinality(ForeignCallIndexes) = 1

\* create_list has returned Ok for a list of two nodes: two foreign calls
C11_Witness ==
    /\ InCreateList
    /\ pc = "returned"
    /\ result.kind = "Ok"
    /\ Len(result.val) = 2
    /\ Cardinality(ForeignCallIndexes) = 2

\* C12: no retries: within one invocation each foreign function is called
\* at most once, also when it returns Busy or Resource; that error is then
\* what the operation returns.
C12_NoRetry ==
    /\ \A fn \in ForeignFns : Cardinality(CallIndexes(fn)) <= 1
    /\ ( /\ pc = "returned"
         /\ LastCall.ret \in {WDI_ERROR_BUSY, WDI_ERROR_RESOURCE} )
       => result = Err(VariantOf(LastCall.ret))
    /\ \A i \in 1..Len(calls) :
         calls[i].ret \in {WDI_ERROR_BUSY, WDI_ERROR_RESOURCE} => i = Len(calls)

\* prepare_driver has returned after the library reported Busy once
C12_Witness ==
    /\ InDriverOp
    /\ pc = "returned"
    /\ Len(calls) = 1
    /\ calls[1].fn = "wdi_prepare_driver"
    /\ calls[1].ret = WDI_ERROR_BUSY
    /\ result.kind = "Err"

\* C14: prepare_driver and install_driver return Err(e) exactly when
\* Error::from_error_code of the foreign call's status code is Some(e), with
\* that e, and Ok(()) in every other case.
C14_DriverResultClassified ==
    (InDriverOp /\ pc = "returned")
    => /\ Len(calls) = 1
       /\ ret = calls[1].ret
       /\ \A e \in ErrorVariants :
            result = Err(e) <=> from_error_code(calls[1].ret) = Some(e)
       /\ result = Ok(Unit) <=> from_error_code(calls[1].ret) = None
       /\ result.kind \in {"Ok", "Err"}

\* prepare_driver has returned the error of a recognized status code
C14_Witness ==
    /\ InDriverOp
    /\ pc = "returned"
    /\ calls[1].fn = "wdi_prepare_driver"
    /\ calls[1].ret = WDI_ERROR_ACCESS
    /\ result = Err("Access")

\* C13: Error::from_error_code maps each of the six defined status codes to
\* exactly its variant, distinct codes giving distinct variants, and returns
\* None for code 0 and for every other integer.
C13_ErrorMapping ==
    (bench.fn = "from_error_code")
    => /\ bench.arg \in RecognizedCodes => bench.out = Some(VariantOf(bench.arg))
       /\ bench.arg \notin RecognizedCodes => bench.out = None
       /\ bench.arg = WDI_SUCCESS => bench.out = None
       /\ IsSome(bench.out)
            => \A c \in CodeRange \ {bench.arg} : from_error_code(c) # bench.out
       /\ Cardinality({from_error_code(c) : c \in RecognizedCodes}) = 6

\* the mapping applied to WDI_ERROR_NOT_FOUND
C13_Witness ==
    /\ bench.fn = "from_error_code"
    /\ bench.arg = WDI_ERROR_NOT_FOUND
    /\ bench.out = Some("NotFound")

\* the four driver-type codes and the variant of each
DriverTypeCodes == {WDI_WINUSB, WDI_LIBUSB0, WDI_LIBUSBK, WDI_USER}
DriverTypeOf(code) ==
    CASE code = WDI_WINUSB -> "WinUsb"
      [] code = WDI_LIBUSB0 -> "Libusb0"
      [] code = WDI_LIBUSBK -> "LibusbK"
      [] code = WDI_USER -> "User"

C16_CreateListOptionsRoundTrip ==
    (bench.fn = "CreateListOptions")
    => /\ bench.out.raw.list_all = (IF bench.arg.list_all THEN 1 ELSE 0)
       /\ bench.out.raw.list_hubs = (IF bench.arg.list_hubs THEN 1 ELSE 0)
       /\ bench.out.raw.trim_whitespaces = (IF bench.arg.trim_whitespaces THEN 1 ELSE 0)
       /\ bench.out.back = bench.arg

\* the scenario {true, false, true} gives raw {1, 0, 1}
C16_Witness ==
    /\ bench.fn = "CreateListOptions"
    /\ bench.arg = [list_all |-> TRUE, list_hubs |-> FALSE, trim_whitespaces |-> TRUE]
    /\ bench.out.raw = [list_all |-> 1, list_hubs |-> 0, trim_whitespaces |-> 1]

OptionalFields == {"driver", "device_id", "hardware_id", "compatible_id", "upper_filter"}

\* C17: for every well-formed DeviceInfo, with any combination of present
\* and absent optional string fields, as_raw followed by clone_from_raw
\* yields a DeviceInfo equal to the original in all eleven fields.
C17_DeviceInfoRoundTrip ==
    (bench.fn = "DeviceInfo round trip")
    => /\ HasReturned(bench.out)
       /\ DOMAIN bench.out[1] = DOMAIN bench.arg
       /\ Cardinality(DOMAIN bench.arg) = 11
       /\ \A f \in DOMAIN bench.arg : bench.out[1][f] = bench.arg[f]

\* a value with present and absent optional fields, of different contents
C17_Witness ==
    /\ bench.fn = "DeviceInfo round trip"
    /\ bench.arg.driver = Some(<< 65, 0 >>)
    /\ bench.arg.device_id = Some(<< 0 >>)
    /\ bench.arg.hardware_id = None
    /\ bench.arg.is_composite
    /\ HasReturned(bench.out)

\* C18: DeviceInfo::as_raw always returns a raw struct whose next is null,
\* whose desc is non-null, and in which each of the five optional string
\* pointers is null exactly when the field is absent; the scalar fields are
\* copied unchanged and is_composite is encoded as 0 or 1.
C18_AsRawShape ==
    (bench.fn = "DeviceInfo::as_raw")
    => /\ bench.out.raw.next = NULL
       /\ bench.out.raw.desc # NULL
       /\ bench.out.mem[bench.out.raw.desc] = bench.arg.desc
       /\ \A f \in OptionalFields :
            /\ bench.out.raw[f] = NULL <=> bench.arg[f] = None
            /\ bench.out.raw[f] # NULL
                 => bench.out.mem[bench.out.raw[f]] = Unwrap(bench.arg[f])
       /\ bench.out.raw.vid = bench.arg.vid
       /\ bench.out.raw.pid = bench.arg.pid
       /\ bench.out.raw.mi = bench.arg.mi
       /\ bench.out.raw.driver_version = bench.arg.driver_version
       /\ bench.out.raw.is_composite = (IF bench.arg.is_composite THEN 1 ELSE 0)

\* the scenario: a description, no driver, no other optional field
C18_Witness ==
    /\ bench.fn = "DeviceInfo::as_raw"
    /\ bench.arg.desc = << 65, 0 >>
    /\ \A f \in OptionalFields : bench.arg[f] = None
    /\ bench.out.raw.driver = NULL
    /\ bench.out.raw.desc # NULL

\* C19: in DeviceInfo::clone_from_raw each of the five optional fields is
\* present in the result exactly when the corresponding raw pointer is not
\* null, whatever the other fields and the pointed-to content (an empty C
\* string gives a present field, not an absent one).
C19_PresentIffNonNull ==
    (bench.fn = "DeviceInfo::clone_from_raw" /\ HasReturned(bench.out))
    => \A f \in OptionalFields :
         /\ IsSome(bench.out[1][f]) <=> bench.arg[f] # NULL
         /\ bench.arg[f] # NULL
              => bench.out[1][f] = Some(CStr_from_ptr(ForeignStrings, bench.arg[f]))
         /\ ForeignStrings[2] = << 0 >>
         /\ bench.arg[f] = 2 => bench.out[1][f] = Some(<< 0 >>)

\* a node with an empty-string field, a null field and a non-empty field
C19_Witness ==
    /\ bench.fn = "DeviceInfo::clone_from_raw"
    /\ HasReturned(bench.out)
    /\ bench.arg.driver = 2
    /\ bench.arg.device_id = NULL
    /\ bench.arg.hardware_id = 1
    /\ bench.out[1].driver = Some(<< 0 >>)
    /\ bench.out[1].device_id = None

\* C20: DeviceInfo::clone_from_raw panics when the raw desc pointer is null,
\* whatever the other fields hold, and returns no DeviceInfo in that case;
\* when desc is not null it does not panic.
C20_PanicsIffDescNull ==
    (bench.fn = "DeviceInfo::clone_from_raw")
    => /\ bench.arg.desc = NULL => bench.out = Panicked
       /\ bench.arg.desc # NULL
            => /\ HasReturned(bench.out)
               /\ bench.out[1].desc = CStr_from_ptr(ForeignStrings, bench.arg.desc)

\* a node with a null desc and every other string present has panicked
C20_Witness ==
    /\ bench.fn = "DeviceInfo::clone_from_raw"
    /\ bench.arg.desc = NULL
    /\ \A f \in OptionalFields : bench.arg[f] # NULL
    /\ bench.out = Panicked

\* the bytes a buffer pointer gives when read, << -1 >> for freed memory
Deref(heap, p) == IF p \in DOMAIN heap THEN heap[p] ELSE << -1 >>
DerefOpt(heap, o) == IF IsSome(o) THEN Some(Deref(heap, Unwrap(o))) ELSE None
\* the DeviceInfo as its fields read now
FieldsRead(info, heap) ==
    [vid |-> info.vid, pid |-> info.pid, is_composite |-> info.is_composite,
     mi |-> info.mi, desc |-> Deref(heap, info.desc),
     driver |-> DerefOpt(heap, info.driver),
     device_id |-> DerefOpt(heap, info.device_id),
     hardware_id |-> DerefOpt(heap, info.hardware_id),
     compatible_id |-> DerefOpt(heap, info.compatible_id),
     upper_filter |-> DerefOpt(heap, info.upper_filter),
     driver_version |-> info.driver_version]
BufferPointers(info) ==
    {info.desc} \cup UNION {{Unwrap(info[f])} : f \in {g \in OptionalFields : IsSome(info[g])}}

\* C21: a DeviceInfo produced by clone_from_raw never aliases foreign
\* memory: none of its buffers lies in foreign memory, and after any later
\* change or release of the foreign memory, the release made by the destroy
\* call included, every field reads as it did at construction.
C21_NoAliasOfForeignMemory ==
    ( /\ bench.fn \in {"clone_from_raw, owned",
                       "clone_from_raw, owned, foreign memory changed"}
      /\ HasReturned(bench.out) )
    => /\ BufferPointers(bench.out[1].info) \cap DOMAIN ForeignStrings = {}
       /\ FieldsRead(bench.out[1].info, bench.out[1].heap)
            = Unwrap(clone_from_raw(bench.arg, ForeignStrings))

\* a node with present strings has been cloned and the foreign memory then
\* released
C21_Witness ==
    /\ bench.fn = "clone_from_raw, owned, foreign memory changed"
    /\ bench.arg.driver # NULL
    /\ bench.arg.device_id # NULL
    /\ DOMAIN bench.out[1].heap \cap DOMAIN ForeignStrings = {}
    /\ IsSome(bench.out[1].info.driver)

StringFields == {"vendor_name", "device_guid", "cert_subject"}

\* C22: for every PrepareDriverOptions value reachable through Default and
\* the builder methods, as_raw then clone_from_raw yields a value equal to
\* the original: absent strings become null pointers and come back absent,
\* present ones come back as equal byte buffers, terminator included, the
\* four flags are encoded as 0/1 and decoded back, and the driver type is
\* preserved.
C22_PrepareOptionsRoundTrip ==
    (bench.fn = "PrepareDriverOptions round trip")
    => /\ bench.out = Returned(bench.arg)
       /\ \A f \in StringFields :
            /\ PrepareDriverOptions_as_raw(bench.arg).raw[f] = NULL <=> bench.arg[f] = None
            /\ IsSome(bench.arg[f])
                 => Unwrap(bench.arg[f])[Len(Unwrap(bench.arg[f]))] = 0
       /\ \A f \in {"disable_cat", "disable_signing", "use_wcid_driver", "external_inf"} :
            PrepareDriverOptions_as_raw(bench.arg).raw[f] = (IF bench.arg[f] THEN 1 ELSE 0)

\* a value with a present, an empty and an absent string, a set flag and a
\* driver type other than the default has gone through the round trip
C22_Witness ==
    /\ bench.fn = "PrepareDriverOptions round trip"
    /\ bench.arg.driver_type = "User"
    /\ bench.arg.vendor_name = Some(<< 68, 0 >>)
    /\ bench.arg.device_guid = Some(<< 0 >>)
    /\ bench.arg.cert_subject = None
    /\ bench.arg.disable_signing
    /\ HasReturned(bench.out)

\* C23: PrepareDriverOptions::clone_from_raw panics when raw.driver_type is
\* not one of the four driver type codes, and returns no value then; for
\* one of the four codes it returns that driver type.
C23_InvalidDriverTypePanics ==
    (bench.fn = "PrepareDriverOptions::clone_from_raw")
    => /\ bench.arg.driver_type \notin DriverTypeCodes => bench.out = Panicked
       /\ bench.arg.driver_type \in DriverTypeCodes
            => /\ HasReturned(bench.out)
               /\ bench.out[1].driver_type = DriverTypeOf(bench.arg.driver_type)

\* a raw struct with driver type code 4 and valid strings has made
\* clone_from_raw panic
C23_Witness ==
    /\ bench.fn = "PrepareDriverOptions::clone_from_raw"
    /\ bench.arg.driver_type = WDI_USER + 1
    /\ bench.arg.vendor_name # NULL
    /\ bench.out = Panicked

\* the argument of the last call that set field f, or the argument that
\* gives the default when no call set it
DefaultArgs ==
    [driver_type |-> "WinUsb", vendor_name |-> None, device_guid |-> None,
     disable_cat |-> FALSE, disable_signing |-> FALSE, cert_subject |-> None,
     use_wcid_driver |-> FALSE, external_inf |-> FALSE]
LastSet(last, f) == IF IsSome(last[f]) THEN Unwrap(last[f]) ELSE DefaultArgs[f]
WellFormedCString(bytes) ==
    /\ Len(bytes) >= 1
    /\ bytes[Len(bytes)] = 0
    /\ \A i \in 1..(Len(bytes) - 1) : bytes[i] # 0

\* C25: over every sequence of Default, builder calls and clone_from_raw on
\* valid C strings, each present string field of a PrepareDriverOptions
\* ends with exactly one zero byte and holds no other zero byte, so the
\* three string getters never panic and return the string last set.
C25_StringFieldsWellFormed ==
    /\ (bench.fn = "PrepareDriverOptions")
         => \A f \in StringFields :
              IsSome(bench.out[f]) => WellFormedCString(Unwrap(bench.out[f]))
    /\ (bench.fn = "PrepareDriverOptions getters")
         => /\ bench.out.get_vendor_name = Returned(LastSet(bench.arg, "vendor_name"))
            /\ bench.out.get_device_guid = Returned(LastSet(bench.arg, "device_guid"))
            /\ bench.out.get_cert_subject = Returned(LastSet(bench.arg, "cert_subject"))

\* the getters have been called on a value whose vendor_name was set to a
\* string, whose device_guid was set to the empty string and whose
\* cert_subject was set back to None
C25_Witness ==
    /\ bench.fn = "PrepareDriverOptions getters"
    /\ bench.arg.vendor_name = Some(Some(<< 68 >>))
    /\ bench.arg.device_guid = Some(Some(<< >>))
    /\ bench.arg.cert_subject = Some(None)
    /\ bench.out.get_vendor_name = Returned(Some(<< 68 >>))
    /\ bench.out.get_device_guid = Returned(Some(<< >>))
    /\ bench.out.get_cert_subject = Returned(None)

OptionsFields == DOMAIN DefaultArgs
\* the value field f holds after a builder call with argument a
FieldValue(f, a) == IF f \in StringFields /\ IsSome(a) THEN Some(Unwrap(a) \o << 0 >>) ELSE a
\* the fields a step changed, in the value and in the record of calls
ChangedFields == {f \in OptionsFields : bench'.out[f] # bench.out[f] \/ bench'.arg[f] # bench.arg[f]}

\* C26: default() has driver type WinUsb, the three strings absent and the
\* four flags false; each builder method changes only the field it names
\* and leaves the other seven unchanged; after any sequence of builder
\* calls each getter returns the value of the last call for its field, or
\* the default if the field was never set.
C26_BuilderFrameAndGetters ==
    /\ [](bench = Applied("PrepareDriverOptions", NeverSet, bench.out)
            => bench.out = DefaultArgs)
    /\ []((bench.fn = "PrepareDriverOptions getters")
            => /\ bench.out.get_driver_type = LastSet(bench.arg, "driver_type")
               /\ bench.out.get_vendor_name = Returned(LastSet(bench.arg, "vendor_name"))
               /\ bench.out.get_device_guid = Returned(LastSet(bench.arg, "device_guid"))
               /\ bench.out.get_disable_cat = LastSet(bench.arg, "disable_cat")
               /\ bench.out.get_disable_signing = LastSet(bench.arg, "disable_signing")
               /\ bench.out.get_cert_subject = Returned(LastSet(bench.arg, "cert_subject"))
               /\ bench.out.get_use_wcid_driver = LastSet(bench.arg, "use_wcid_driver")
               /\ bench.out.get_external_inf = LastSet(bench.arg, "external_inf"))
    /\ [][(bench.fn = "PrepareDriverOptions" /\ bench'.fn = "PrepareDriverOptions")
            => /\ Cardinality(ChangedFields) <= 1
               /\ \A f \in ChangedFields :
                    /\ IsSome(bench'.arg[f])
                    /\ bench'.out[f] = FieldValue(f, Unwrap(bench'.arg[f]))]_vars

\* the getters have been called on a value of which only disable_cat and
\* driver_type were ever set
C26_Witness ==
    /\ bench.fn = "PrepareDriverOptions getters"
    /\ bench.arg = [NeverSet EXCEPT !.disable_cat = Some(TRUE), !.driver_type = Some("LibusbK")]
    /\ bench.out.get_disable_cat
    /\ ~bench.out.get_disable_signing
    /\ bench.out.get_driver_type = "LibusbK"
    /\ bench.out.get_vendor_name = Returned(None)

RECURSIVE LinkAddrs(_, _)
\* the addresses of the list at a, in link order, up to the null sentinel
LinkAddrs(heap, a) ==
    IF a = NULL THEN << >> ELSE << a >> \o LinkAddrs(heap, heap[a].next)
\* the addresses read so far, in the order read
ReadAddrs == [k \in 1..Cardinality(ReadIndexes) |->
                calls[CHOOSE i \in ReadIndexes :
                        Cardinality({j \in ReadIndexes : j <= i}) = k].arg]
InLoop == InCreateList /\ pc = "cl_loop"
LoopOver == InCreateList /\ Ended /\ Cardinality(ReadIndexes) >= 1
AllDescPresent == \A i \in 1..Len(given) : given[i].desc # NULL

\* C24 (as claimed): the traversal loop of create_list terminates for every
\* finite list ending in a null next link, having read each node exactly
\* once; it stops exactly when it reaches the null sentinel.
C24_LoopReadsEveryNode ==
    LoopOver => /\ Cardinality(ReadIndexes) = Len(given)
                /\ current = NULL

\* C24 (amended): for every finite list ending in a null next link whose
\* nodes all have a non-null desc, the traversal loop terminates, reading
\* each node exactly once in link order and making no per-node release
\* call, and it stops exactly when it reaches the null sentinel; when a node
\* has a null desc the loop ends in the panic of clone_from_raw at the first
\* such node, having read the nodes up to and including it once each, in
\* link order, with no release call made.
C24_LoopTerminatesInLinkOrder ==
    /\ [](InLoop
            => /\ ReadAddrs \o LinkAddrs(nodes, current) = LinkAddrs(nodes, list_ptr)
               /\ DestroyIndexes = {}
               /\ \A i \in 1..Cardinality(ReadIndexes) : given[i].desc # NULL)
    /\ []((LoopOver /\ pc = "returned")
            => /\ current = NULL
               /\ Cardinality(ReadIndexes) = Len(given)
               /\ AllDescPresent
               /\ DestroyIndexes = {Len(calls)}
               /\ LastCall.arg = list_ptr)
    /\ []((LoopOver /\ pc = "panicked")
            => /\ current # NULL
               /\ DestroyIndexes = {}
               /\ given[Cardinality(ReadIndexes)].desc = NULL
               /\ \A i \in 1..(Cardinality(ReadIndexes) - 1) : given[i].desc # NULL
               /\ ReadAddrs = SubSeq(LinkAddrs(nodes, list_ptr), 1, Cardinality(ReadIndexes)))
    /\ (InLoop /\ AllDescPresent) ~> (InCreateList /\ pc = "returned")
    /\ InLoop ~> (InCreateList /\ Ended)

\* a list of three nodes laid out against address order has been read to
\* its null sentinel
C24_Witness ==
    /\ InLoop
    /\ current = NULL
    /\ Len(given) = 3
    /\ list_ptr = 3
    /\ ReadAddrs = << 3, 2, 1 >>

AtDriverCall == pc \in {"pd_call", "id_call"}
DriverCallIndexes == CallIndexes("wdi_prepare_driver") \cup CallIndexes("wdi_install_driver")

\* C27: in prepare_driver and install_driver the two transient C-string
\* buffers (path, inf_name) are both allocated before the foreign call
\* starts, stay allocated for the whole duration of the foreign call, and
\* are each released exactly once after the foreign call has returned and
\* before the operation returns its result; no buffer is released twice or
\* read after release.
C27_BuffersOutliveTheCall ==
    /\ [](AtDriverCall
            => /\ path_ptr # NULL /\ inf_name_ptr # NULL /\ path_ptr # inf_name_ptr
               /\ {path_ptr, inf_name_ptr} = DOMAIN cbufs
               /\ released = << >>
               /\ DriverCallIndexes = {})
    /\ [][AtDriverCall
            => /\ cbufs' = cbufs
               /\ released' = released
               /\ DOMAIN cbufs' = {path_ptr', inf_name_ptr'}
               /\ Cardinality(DriverCallIndexes') = 1]_vars
    /\ []((InDriverOp /\ released # << >>) => Cardinality(DriverCallIndexes) = 1)
    /\ []((InDriverOp /\ pc = "returned")
            => /\ Len(released) = 2
               /\ {released[1], released[2]} = {path_ptr, inf_name_ptr}
               /\ released[1] # released[2]
               /\ DOMAIN cbufs = {})
    /\ []((InDriverOp /\ result # NoResult) => Len(released) = 2)
    /\ [][(InDriverOp /\ released # << >> /\ pc' # "idle")
            => /\ calls' = calls
               /\ released' = released
               /\ cbufs' = cbufs]_vars

\* install_driver has returned after its foreign call, both buffers
\* released once each
C27_Witness ==
    /\ InDriverOp
    /\ pc = "returned"
    /\ CallIndexes("wdi_install_driver") = {1}
    /\ released = << PathBufAddr, InfNameBufAddr >>
    /\ DOMAIN cbufs = {}
    /\ result.kind = "Err"

HasInteriorZero(str) == \E i \in 1..Len(str) : str[i] = 0
\* the C string the foreign function reads at a buffer of this invocation
SeenByForeign(p) == CStr_from_ptr(cbufs, p)

\* C28: if path or inf_name contains an interior zero byte, prepare_driver
\* and install_driver panic before the foreign call is made: the foreign
\* function is never invoked with a truncated path or name, and no Ok or
\* Err is returned.
C28_InteriorZeroPanicsBeforeCall ==
    /\ (InDriverOp /\ ( \/ HasInteriorZero(Unwrap(args).path)
                        \/ HasInteriorZero(Unwrap(args).inf_name) ))
         => /\ pc = "panicked"
            /\ ForeignCallIndexes = {}
            /\ result = NoResult
    /\ (InDriverOp /\ pc \in {"pd_call", "id_call", "pd_release", "id_release"})
         => /\ SeenByForeign(path_ptr) = Unwrap(args).path \o << 0 >>
            /\ SeenByForeign(inf_name_ptr) = Unwrap(args).inf_name \o << 0 >>

\* prepare_driver was given a sound path and an inf_name with an interior
\* zero byte, and has panicked
C28_Witness ==
    /\ InDriverOp
    /\ IsSome(opt) = FALSE
    /\ Unwrap(args).path = << 97 >>
    /\ Unwrap(args).inf_name = << 97, 0, 98 >>
    /\ pc = "panicked"
    /\ calls = << >>

====
